---- MODULE Spec2Model ----
(***************************************************************************)
(* Model of the text-search engine of plug-n-play-ws: the text analyzer    *)
(* (buildNGrams, buildEdgeGrams), the shared BaseSearchAdapter (scoring,   *)
(* pagination), the MemoryAdapter with LRU tracking and the                *)
(* UnifiedRedisAdapter.                                                    *)
(*                                                                         *)
(* A string is a sequence of one-character strings.  A score is an integer *)
(* number of hundredths (Scale), so 0.5 is 50 and 100 is 10000; the        *)
(* configurations used keep every product and quotient exact.              *)
(***************************************************************************)
EXTENDS Integers, Sequences, FiniteSets, TLC

\* ------------------------------------------------------------------------
\* Characters and JavaScript string primitives
\* ------------------------------------------------------------------------

LowerLetters ==
  {"a","b","c","d","e","f","g","h","i","j","k","l","m",
   "n","o","p","q","r","s","t","u","v","w","x","y","z"}

UpperLetters ==
  {"A","B","C","D","E","F","G","H","I","J","K","L","M",
   "N","O","P","Q","R","S","T","U","V","W","X","Y","Z"}

Digits == {"0","1","2","3","4","5","6","7","8","9"}

\* a sequence given as a function on 1..n, as a tuple
Array(f) == SubSeq(f, 1, Len(f))

\* the positions of s, in order
Indices(s) == Array([i \in 1..Len(s) |-> i])

\* the entries of s at the positions in kept, in order
SubseqAt(s, kept) ==
  LET positions == SelectSeq(Indices(s), LAMBDA i : i \in kept)
  IN  Array([k \in 1..Len(positions) |-> s[positions[k]]])

\* String.prototype.toLowerCase on one character
LowerChar(c) ==
  CASE c = "A" -> "a" [] c = "B" -> "b" [] c = "C" -> "c" [] c = "D" -> "d"
    [] c = "E" -> "e" [] c = "F" -> "f" [] c = "G" -> "g" [] c = "H" -> "h"
    [] c = "I" -> "i" [] c = "J" -> "j" [] c = "K" -> "k" [] c = "L" -> "l"
    [] c = "M" -> "m" [] c = "N" -> "n" [] c = "O" -> "o" [] c = "P" -> "p"
    [] c = "Q" -> "q" [] c = "R" -> "r" [] c = "S" -> "s" [] c = "T" -> "t"
    [] c = "U" -> "u" [] c = "V" -> "v" [] c = "W" -> "w" [] c = "X" -> "x"
    [] c = "Y" -> "y" [] c = "Z" -> "z" [] OTHER -> c

toLowerCase(s) == Array([i \in 1..Len(s) |-> LowerChar(s[i])])

\* the regular-expression classes \w and \s
IsWordChar(c) == c \in LowerLetters \cup UpperLetters \cup Digits \cup {"_"}
IsSpace(c) == c = " "

\* .replace(/[^\w\s]/g, ' ')
ReplaceNonWord(s) ==
  Array([i \in 1..Len(s) |->
           IF IsWordChar(s[i]) \/ IsSpace(s[i]) THEN s[i] ELSE " "])

\* .replace(/\s+/g, ' '): every run of whitespace becomes one space
CollapseSpaces(s) ==
  LET kept == {i \in 1..Len(s) : ~(IsSpace(s[i]) /\ i > 1 /\ IsSpace(s[i - 1]))}
      one == SubseqAt(s, kept)
  IN  Array([i \in 1..Len(one) |-> IF IsSpace(one[i]) THEN " " ELSE one[i]])

\* .trim()
trim(s) ==
  LET solid == {i \in 1..Len(s) : ~IsSpace(s[i])}
  IN  IF solid = {} THEN <<>>
      ELSE SubSeq(s, CHOOSE i \in solid : \A j \in solid : i <= j,
                     CHOOSE i \in solid : \A j \in solid : j <= i)

\* .split(' '): the pieces between single spaces, empty pieces included
SplitSpace(s) ==
  LET spaces == SelectSeq(Indices(s), LAMBDA i : s[i] = " ")
      \* the piece in front of the k-th space, the last piece for k past the spaces
      from(k) == IF k = 1 THEN 1 ELSE spaces[k - 1] + 1
      to(k) == IF k > Len(spaces) THEN Len(s) ELSE spaces[k] - 1
  IN  Array([k \in 1..(Len(spaces) + 1) |-> SubSeq(s, from(k), to(k))])

\* .split(/\s+/): the pieces between maximal runs of whitespace
SplitWhitespace(s) == SplitSpace(CollapseSpaces(s))

\* [...new Set(xs)]: first occurrences, in order
Dedup(xs) ==
  SubseqAt(xs, {i \in 1..Len(xs) : \A j \in 1..(i - 1) : xs[j] # xs[i]})

RECURSIVE Flatten(_)
Flatten(xss) == IF xss = <<>> THEN <<>> ELSE Head(xss) \o Flatten(Tail(xss))

Range(xs) == {xs[i] : i \in 1..Len(xs)}

Min(a, b) == IF a < b THEN a ELSE b
Max(a, b) == IF a > b THEN a ELSE b

\* ------------------------------------------------------------------------
\* Text analyzer
\* ------------------------------------------------------------------------

\* the normalization and word split shared by buildNGrams and buildEdgeGrams
NormalizedWords(text) ==
  SplitSpace(trim(CollapseSpaces(ReplaceNonWord(toLowerCase(text)))))

\* the sliding window stopping one position early
WordNGrams_SkipLast(word, n) ==
  IF Len(word) >= n
  THEN Array([i \in 1..(Len(word) - n) |-> SubSeq(word, i, i + n - 1)])
  ELSE <<>>

\* the inner loop of buildNGrams for one word
WordNGrams(word, n) ==
  IF Len(word) >= n
  THEN Array([i \in 1..(Len(word) - n + 1) |-> SubSeq(word, i, i + n - 1)])
  ELSE <<>>

buildNGrams(text, n) ==
  LET words == NormalizedWords(text)
  IN  Dedup(Flatten(Array([w \in 1..Len(words) |-> WordNGrams(words[w], n)])))

\* the prefixes from length 1 on, whatever minGram is
WordEdgeGrams_FromOne(word, minGram, maxGram) ==
  LET top == Min(maxGram, Len(word))
  IN  Array([i \in 1..top |-> SubSeq(word, 1, i)])

\* the inner loop of buildEdgeGrams for one word
WordEdgeGrams(word, minGram, maxGram) ==
  LET top == Min(maxGram, Len(word))
  IN  IF minGram <= top
      THEN Array([i \in 1..(top - minGram + 1) |-> SubSeq(word, 1, minGram + i - 1)])
      ELSE <<>>

buildEdgeGrams(text, minGram, maxGram) ==
  IF minGram > maxGram THEN <<>>
  ELSE LET words == NormalizedWords(text)
       IN  Dedup(Flatten(Array([w \in 1..Len(words) |->
                                  WordEdgeGrams(words[w], minGram, maxGram)])))

\* ------------------------------------------------------------------------
\* BaseSearchAdapter
\* ------------------------------------------------------------------------

\* one unit of score: scores are counted in hundredths
Scale == 100

\* the product of two scaled numbers
Times(a, b) == (a * b) \div Scale

DEFAULT_SEARCH_CONFIG ==
  [ngramSize |-> 3, minEdgegram |-> 2, maxEdgegram |-> 10,
   exactMatchBoost |-> 100 * Scale, ngramWeight |-> 50,
   edgegramWeight |-> 1 * Scale, minScore |-> 10]

generateSearchTerms(cfg, content) ==
  [ngrams    |-> buildNGrams(content, cfg.ngramSize),
   edgegrams |-> buildEdgeGrams(content, cfg.minEdgegram, cfg.maxEdgegram)]

RECURSIVE SumSeq(_)
SumSeq(xs) == IF xs = <<>> THEN 0 ELSE Head(xs) + SumSeq(Tail(xs))

\* calculateRelevanceScore without the two weighted match terms
calculateRelevanceScore_ExactOnly(cfg, documentContent, searchTerms, ngramMatches, edgegramMatches) ==
  LET words == Range(SplitWhitespace(toLowerCase(documentContent)))
  IN  SumSeq(Array([t \in 1..Len(searchTerms) |->
                      IF toLowerCase(searchTerms[t]) \in words
                      THEN cfg.exactMatchBoost ELSE 0]))

\* calculateRelevanceScore with the boost added once per occurrence of the
\* term among the words of the content
calculateRelevanceScore_PerOccurrence(cfg, documentContent, searchTerms, ngramMatches, edgegramMatches) ==
  LET words == SplitWhitespace(toLowerCase(documentContent))
      exact == SumSeq(Array([t \in 1..Len(searchTerms) |->
                 cfg.exactMatchBoost
                   * Cardinality({w \in 1..Len(words) :
                                    words[w] = toLowerCase(searchTerms[t])})]))
  IN  exact + Times(ngramMatches, cfg.ngramWeight)
            + Times(edgegramMatches, cfg.edgegramWeight)

\* ngramMatches and edgegramMatches are scaled numbers, as are the weights
calculateRelevanceScore(cfg, documentContent, searchTerms, ngramMatches, edgegramMatches) ==
  LET words == Range(SplitWhitespace(toLowerCase(documentContent)))
      exact == SumSeq(Array([t \in 1..Len(searchTerms) |->
                               IF toLowerCase(searchTerms[t]) \in words
                               THEN cfg.exactMatchBoost ELSE 0]))
  IN  exact + Times(ngramMatches, cfg.ngramWeight)
            + Times(edgegramMatches, cfg.edgegramWeight)

\* insert r behind every entry whose score is not smaller: a stable descending order
RECURSIVE InsertByScore(_, _)
InsertByScore(sorted, r) ==
  IF sorted = <<>> THEN <<r>>
  ELSE IF Head(sorted).score >= r.score
       THEN <<Head(sorted)>> \o InsertByScore(Tail(sorted), r)
       ELSE <<r>> \o sorted

\* filteredResults.sort((a, b) => b.score - a.score), a stable sort
RECURSIVE SortByScore(_)
SortByScore(xs) ==
  IF xs = <<>> THEN <<>>
  ELSE InsertByScore(SortByScore(SubSeq(xs, 1, Len(xs) - 1)), xs[Len(xs)])

\* Array.prototype.slice(from, to), 0-based and clipped
Slice(xs, from, to) == SubSeq(xs, Min(from, Len(xs)) + 1, Min(to, Len(xs)))

\* query.offset || 0 and query.limit || 10
QueryOffset(query) == IF query.offset = 0 THEN 0 ELSE query.offset
QueryLimit(query) == IF query.limit = 0 THEN 10 ELSE query.limit

\* processSearchResults with total taken from the page instead of the list
processSearchResults_TotalOfPage(cfg, query, documentScores) ==
  LET AboveMin(e) == ~(e.score < cfg.minScore)
      filteredResults == SortByScore(SelectSeq(documentScores, AboveMin))
      offset == QueryOffset(query)
      limit  == QueryLimit(query)
      paginatedResults == Slice(filteredResults, offset, offset + limit)
  IN  [query   |-> query.query,
       results |-> paginatedResults,
       total   |-> Len(paginatedResults),
       hasMore |-> (offset + limit < Len(filteredResults))]

\* processSearchResults with slice(offset, limit) for slice(offset, offset + limit)
processSearchResults_SliceToLimit(cfg, query, documentScores) ==
  LET AboveMin(e) == ~(e.score < cfg.minScore)
      filteredResults == SortByScore(SelectSeq(documentScores, AboveMin))
      offset == QueryOffset(query)
      limit  == QueryLimit(query)
  IN  [query   |-> query.query,
       results |-> Slice(filteredResults, offset, Max(offset, limit)),
       total   |-> Len(filteredResults),
       hasMore |-> (offset + limit < Len(filteredResults))]

\* processSearchResults without the sort: the entries in insertion order
processSearchResults_NoSort(cfg, query, documentScores) ==
  LET AboveMin(e) == ~(e.score < cfg.minScore)
      filteredResults == SelectSeq(documentScores, AboveMin)
      offset == QueryOffset(query)
      limit  == QueryLimit(query)
  IN  [query   |-> query.query,
       results |-> Slice(filteredResults, offset, offset + limit),
       total   |-> Len(filteredResults),
       hasMore |-> (offset + limit < Len(filteredResults))]

\* processSearchResults without the minScore filter
processSearchResults_KeepLow(cfg, query, documentScores) ==
  LET filteredResults == SortByScore(documentScores)
      offset == QueryOffset(query)
      limit  == QueryLimit(query)
  IN  [query   |-> query.query,
       results |-> Slice(filteredResults, offset, offset + limit),
       total   |-> Len(filteredResults),
       hasMore |-> (offset + limit < Len(filteredResults))]

\* documentScores is the Map as the sequence of its entries [id, score, data]
\* in insertion order; query.filters is never read
processSearchResults(cfg, query, documentScores) ==
  LET AboveMin(e) == ~(e.score < cfg.minScore)
      filteredResults == SortByScore(SelectSeq(documentScores, AboveMin))
      offset == QueryOffset(query)
      limit  == QueryLimit(query)
  IN  [query   |-> query.query,
       results |-> Slice(filteredResults, offset, offset + limit),
       total   |-> Len(filteredResults),
       hasMore |-> (offset + limit < Len(filteredResults))]

\* generateHighlights: the default of maxHighlights
DefaultMaxHighlights == 3

\* new RegExp(term, 'gi') for a term of word characters and "(": an opening
\* parenthesis that is never closed is a SyntaxError
RegExpCompiles(term) == \A i \in 1..Len(term) : term[i] # "("

\* the number of indexes at which contentLower.indexOf(termLower, ...) finds
\* the term
Occurrences(content, term) ==
  LET contentLower == toLowerCase(content)
      termLower == toLowerCase(term)
  IN  Cardinality({i \in 1..(Len(content) - Len(term) + 1) :
                     SubSeq(contentLower, i, i + Len(term) - 1) = termLower})

\* generateHighlights(content, searchTerms) throws: the RegExp of a term is
\* built when the term occurs in the content and the terms before it have
\* left fewer than maxHighlights snippets
generateHighlightsThrows(content, searchTerms) ==
  LET found == Array([k \in 1..Len(searchTerms) |->
                        Occurrences(content, searchTerms[k])])
      Before(k) == Min(DefaultMaxHighlights, SumSeq(SubSeq(found, 1, k - 1)))
  IN  \E k \in 1..Len(searchTerms) :
        /\ found[k] > 0
        /\ Before(k) < DefaultMaxHighlights
        /\ ~RegExpCompiles(searchTerms[k])

\* generateHighlights: the default of contextLength
DefaultContextLength == 30

\* the indexes, counted from 0 and ascending, at which
\* contentLower.indexOf(termLower, index) finds a term that is not empty
MatchIndexes(content, term) ==
  LET contentLower == toLowerCase(content)
      termLower == toLowerCase(term)
      Found(i) == SubSeq(contentLower, i + 1, i + Len(term)) = termLower
  IN  SelectSeq(Array([k \in 1..(Len(content) + 1) |-> k - 1]),
                LAMBDA i : i + Len(term) <= Len(content) /\ Found(i))

\* snippet.replace(new RegExp(term, 'gi'), '<mark>$&</mark>') for a term of
\* word characters, from position i of the snippet on: the matches are taken
\* from left to right and do not overlap
RECURSIVE MarkFrom(_, _, _)
MarkFrom(snippet, term, i) ==
  IF i > Len(snippet) THEN <<>>
  ELSE IF /\ i + Len(term) - 1 <= Len(snippet)
          /\ toLowerCase(SubSeq(snippet, i, i + Len(term) - 1)) = toLowerCase(term)
       THEN <<"<mark>">> \o SubSeq(snippet, i, i + Len(term) - 1) \o <<"</mark>">>
            \o MarkFrom(snippet, term, i + Len(term))
       ELSE <<snippet[i]>> \o MarkFrom(snippet, term, i + 1)

\* the snippet pushed for the match of the term at position t of searchTerms
\* at index; term and index record where the snippet comes from
Snippet(content, searchTerms, t, index, contextLength) ==
  LET term == searchTerms[t]
      start == Max(0, index - contextLength)
      end == Min(Len(content), index + Len(term) + contextLength)
  IN  [text |-> (IF start > 0 THEN <<"...">> ELSE <<>>)
                \o MarkFrom(SubSeq(content, start + 1, end), term, 1)
                \o (IF end < Len(content) THEN <<"...">> ELSE <<>>),
       term |-> t, index |-> index]

\* the snippets of all matches of the term at position t
TermSnippets(content, searchTerms, t, contextLength) ==
  LET indexes == MatchIndexes(content, searchTerms[t])
  IN  Array([k \in 1..Len(indexes) |->
               Snippet(content, searchTerms, t, indexes[k], contextLength)])

\* highlights after the loop has gone through the first t search terms: the
\* while loop runs as long as highlights.length < maxHighlights
RECURSIVE HighlightsThrough(_, _, _, _, _)
HighlightsThrough(content, searchTerms, maxHighlights, contextLength, t) ==
  IF t = 0 THEN <<>>
  ELSE LET before == HighlightsThrough(content, searchTerms, maxHighlights,
                                       contextLength, t - 1)
           found == TermSnippets(content, searchTerms, t, contextLength)
       IN  before \o SubSeq(found, 1, Min(Len(found),
                                          Max(0, maxHighlights - Len(before))))

\* generateHighlights with maxHighlights snippets for every term
generateHighlights_PerTerm(content, searchTerms, maxHighlights, contextLength) ==
  Flatten(Array([t \in 1..Len(searchTerms) |->
            LET found == TermSnippets(content, searchTerms, t, contextLength)
            IN  SubSeq(found, 1, Min(Len(found), Max(0, maxHighlights)))]))

\* generateHighlights for search terms that are not empty and compile
generateHighlights(content, searchTerms, maxHighlights, contextLength) ==
  HighlightsThrough(content, searchTerms, maxHighlights, contextLength,
                    Len(searchTerms))

\* processSearchResults throws: generateHighlights is called for every entry
\* that is not below minScore
processSearchResultsThrows(cfg, searchTerms, documentScores) ==
  \E i \in 1..Len(documentScores) :
    /\ ~(documentScores[i].score < cfg.minScore)
    /\ generateHighlightsThrows(documentScores[i].data.content, searchTerms)

normalizeSearchQuery(query) ==
  LET NonEmpty(t) == Len(t) > 0
      searchTerms == SelectSeq(SplitWhitespace(toLowerCase(query.query)), NonEmpty)
  IN  [searchTerms |-> searchTerms, isValid |-> Len(searchTerms) > 0]

\* createEmptyResponse with hasMore: true
createEmptyResponse_MoreToCome(query) ==
  [query |-> query.query, results |-> <<>>, total |-> 0, hasMore |-> TRUE]

createEmptyResponse(query) ==
  [query |-> query.query, results |-> <<>>, total |-> 0, hasMore |-> FALSE]

\* ------------------------------------------------------------------------
\* MemoryAdapter (with LRU tracking)
\* ------------------------------------------------------------------------
\* A state of the adapter is a record m with the fields of the class:
\*   documents            id -> [content, metadata], defined on the stored ids
\*   documentAccessOrder  the Map id -> tick as its entries [id, tick] in
\*                        insertion order
\*   ngramIndex, edgegramIndex
\*                        gram -> the Set of ids as a sequence in insertion
\*                        order, defined on the grams that have a key
\*   accessCounter
\* Metadata and filters are sets of <<key, value>> pairs; undefined metadata
\* and the empty object are both the empty set (the code never tells them
\* apart after storing).

\* stands for undefined where an id is expected; like undefined it is falsy
NoId == ""

\* a DocumentData with empty content
NoDocument == [content |-> <<>>, metadata |-> {}]

\* Set.prototype.add on a Set kept as a sequence
SetAdd(members, id) ==
  IF id \in Range(members) THEN members ELSE Append(members, id)

\* Set.prototype.delete
SetDelete(members, id) == SelectSeq(members, LAMBDA d : d # id)

\* Map.prototype.set on documentAccessOrder
AccessOrderSet(order, id, tick) ==
  IF \E i \in 1..Len(order) : order[i].id = id
  THEN Array([i \in 1..Len(order) |->
                IF order[i].id = id THEN [id |-> id, tick |-> tick] ELSE order[i]])
  ELSE Append(order, [id |-> id, tick |-> tick])

\* the loop of removeFromIndex over one of the two indexes
RemoveIdFromMap(index, id) ==
  LET kept == {g \in DOMAIN index : SetDelete(index[g], id) # <<>>}
  IN  [g \in kept |-> SetDelete(index[g], id)]

removeFromIndex(m, id) ==
  [m EXCEPT !.ngramIndex = RemoveIdFromMap(m.ngramIndex, id),
            !.edgegramIndex = RemoveIdFromMap(m.edgegramIndex, id)]

\* removeDocument without its call of removeFromIndex
removeDocument_KeepPostings(m, id) ==
  [m EXCEPT !.documents = [d \in (DOMAIN m.documents) \ {id} |-> m.documents[d]],
            !.documentAccessOrder =
               SelectSeq(m.documentAccessOrder, LAMBDA e : e.id # id)]

removeDocument(m, id) ==
  removeFromIndex(
    [m EXCEPT !.documents = [d \in (DOMAIN m.documents) \ {id} |-> m.documents[d]],
              !.documentAccessOrder =
                 SelectSeq(m.documentAccessOrder, LAMBDA e : e.id # id)],
    id)

\* stands for the number Infinity; every tick is at least 1
Infinity == -1

\* the first entry with the smallest tick; NoId when there is no entry
RECURSIVE FindLRUFrom(_, _, _)
FindLRUFrom(order, lruId, lruAccessTime) ==
  IF order = <<>> THEN lruId
  ELSE IF lruAccessTime = Infinity \/ Head(order).tick < lruAccessTime
       THEN FindLRUFrom(Tail(order), Head(order).id, Head(order).tick)
       ELSE FindLRUFrom(Tail(order), lruId, lruAccessTime)

\* findLRUDocument with the comparison turned round: the largest tick
findLRUDocument_Newest(m) ==
  LET order == m.documentAccessOrder
      newest(i) == \A j \in 1..Len(order) : order[j].tick <= order[i].tick
  IN  IF order = <<>> THEN NoId
      ELSE order[CHOOSE i \in 1..Len(order) : newest(i)].id

findLRUDocument(m) == FindLRUFrom(m.documentAccessOrder, NoId, Infinity)

\* while (documents.size >= maxDocuments) { evict the LRU document or break }
RECURSIVE EvictLRU(_, _)
EvictLRU(m, maxDocs) ==
  IF Cardinality(DOMAIN m.documents) >= maxDocs
  THEN LET lruDocumentId == findLRUDocument(m)
       IN  IF lruDocumentId # NoId
           THEN EvictLRU(removeDocument(m, lruDocumentId), maxDocs)
           ELSE m
  ELSE m

\* the loops that add id under every gram of the document
AddIdToMap(index, grams, id) ==
  [g \in (DOMAIN index) \cup Range(grams) |->
     IF g \in Range(grams)
     THEN SetAdd(IF g \in DOMAIN index THEN index[g] ELSE <<>>, id)
     ELSE index[g]]

indexDocument(m, cfg, maxDocs, id, content, metadata) ==
  LET evicted == EvictLRU(removeFromIndex(m, id), maxDocs)
      terms == generateSearchTerms(cfg, content)
  IN  [documents |->
         [d \in (DOMAIN evicted.documents) \cup {id} |->
            IF d = id THEN [content |-> content, metadata |-> metadata]
            ELSE evicted.documents[d]],
       documentAccessOrder |->
         AccessOrderSet(evicted.documentAccessOrder, id, evicted.accessCounter + 1),
       ngramIndex |-> AddIdToMap(evicted.ngramIndex, terms.ngrams, id),
       edgegramIndex |-> AddIdToMap(evicted.edgegramIndex, terms.edgegrams, id),
       accessCounter |-> evicted.accessCounter + 1]

\* one posting walk of search: the hits <<docId, weight>> of the grams of one
\* index, gram by gram and member by member
PostingHits(index, grams, weight) ==
  Flatten([g \in 1..Len(grams) |->
             IF grams[g] \in DOMAIN index
             THEN [d \in 1..Len(index[grams[g]]) |->
                     [id |-> index[grams[g]][d], weight |-> weight]]
             ELSE <<>>])

\* the hits of all search terms in the order the loops of MemoryAdapter.search
\* visit them: per term its n-grams, then its edge-grams
MemoryHits(m, cfg, searchTerms) ==
  Flatten([t \in 1..Len(searchTerms) |->
             LET terms == generateSearchTerms(cfg, searchTerms[t])
             IN  PostingHits(m.ngramIndex, terms.ngrams, cfg.ngramWeight)
                 \o PostingHits(m.edgegramIndex, terms.edgegrams,
                                cfg.edgegramWeight)])

\* the sum of the weights of the hits of one id
HitScore(hits, id) ==
  LET own == SelectSeq(hits, LAMBDA h : h.id = id)
  IN  SumSeq(Array([i \in 1..Len(own) |-> own[i].weight]))

HitIds(hits) == Array([i \in 1..Len(hits) |-> hits[i].id])

\* documentScores after the hits: an entry is created at the first hit of a
\* stored document, and every hit of an id that has an entry adds its weight
MemoryAccumulate(hits, documents) ==
  LET ids == Dedup(SelectSeq(HitIds(hits), LAMBDA id : id \in DOMAIN documents))
  IN  Array([i \in 1..Len(ids) |->
               [id |-> ids[i], score |-> HitScore(hits, ids[i]),
                data |-> documents[ids[i]]]])

\* updateDocumentAccess without the increment of accessCounter
updateDocumentAccess_SameTick(m, id) ==
  IF id \in DOMAIN m.documents
  THEN [m EXCEPT !.documentAccessOrder = AccessOrderSet(@, id, m.accessCounter)]
  ELSE m

\* if (this.documents.has(id)) documentAccessOrder.set(id, ++accessCounter)
updateDocumentAccess(m, id) ==
  IF id \in DOMAIN m.documents
  THEN [m EXCEPT !.documentAccessOrder = AccessOrderSet(@, id, m.accessCounter + 1),
                 !.accessCounter = @ + 1]
  ELSE m

\* disconnect(): the documents, the access order and both indexes are
\* cleared, accessCounter is 0 again
disconnect(m) ==
  [m EXCEPT !.documents = <<>>, !.documentAccessOrder = <<>>,
            !.ngramIndex = <<>>, !.edgegramIndex = <<>>, !.accessCounter = 0]

\* the adapter after the final loop of search has touched every candidate
RECURSIVE TouchAll(_, _)
TouchAll(m, documentScores) ==
  IF documentScores = <<>> THEN m
  ELSE TouchAll(updateDocumentAccess(m, Head(documentScores).id), Tail(documentScores))

\* the final score of one candidate of MemoryAdapter.search: the accumulated
\* match score is passed as ngramMatches, 0 as edgegramMatches
MemoryFinalScore(cfg, entry, searchTerms) ==
  calculateRelevanceScore(cfg, entry.data.content, searchTerms, entry.score, 0)

MemoryCandidates(m, cfg, searchTerms) ==
  MemoryAccumulate(MemoryHits(m, cfg, searchTerms), m.documents)

\* MemoryAdapter.search: the adapter afterwards, the Map handed to
\* processSearchResults, the error processSearchResults throws and the
\* response it returns otherwise
search(m, cfg, query) ==
  LET norm == normalizeSearchQuery(query)
      candidates == MemoryCandidates(m, cfg, norm.searchTerms)
      scored == Array([i \in 1..Len(candidates) |->
                         [candidates[i] EXCEPT
                            !.score = MemoryFinalScore(cfg, candidates[i],
                                                       norm.searchTerms)]])
  IN  IF ~norm.isValid
      THEN [adapter |-> m, documentScores |-> <<>>, error |-> "none",
            response |-> createEmptyResponse(query)]
      ELSE [adapter |-> TouchAll(m, candidates), documentScores |-> scored,
            error |-> IF processSearchResultsThrows(cfg, norm.searchTerms, scored)
                      THEN "SyntaxError" ELSE "none",
            response |-> processSearchResults(cfg, query, scored)]

\* ------------------------------------------------------------------------
\* The key-value store behind UnifiedRedisInterface
\* ------------------------------------------------------------------------
\* The store holds, per key type, the keys that exist: store[type][id] is the
\* value of the key `${keyPrefix}${type}:${id}`, a hash (a function from field
\* names to strings) under "doc" and a non-empty set under "docs", "ngram"
\* and "edgegram".  EXPIRE sets a time to live; no key expires during a
\* call, and keys expire between calls in StoreSpec only.  The field indexedAt is written and never read, and is
\* left out.

getKey(type, id) == [type |-> type, id |-> id]

EmptyStore == [doc |-> <<>>, docs |-> <<>>, ngram |-> <<>>, edgegram |-> <<>>]

KeyExists(store, key) == key.id \in DOMAIN store[key.type]

DeleteKey(store, key) ==
  [store EXCEPT ![key.type] = [k \in (DOMAIN @) \ {key.id} |-> @[k]]]

PutKey(store, key, value) ==
  [store EXCEPT ![key.type] = [k \in (DOMAIN @) \cup {key.id} |->
                                 IF k = key.id THEN value ELSE @[k]]]

\* a missing key reads as the empty hash and as the empty set
HGETALL(store, key) == IF KeyExists(store, key) THEN store[key.type][key.id] ELSE <<>>
SMEMBERS(store, key) == IF KeyExists(store, key) THEN store[key.type][key.id] ELSE {}

\* KEYS `${keyPrefix}${type}:*`
KEYS(store, type) == {getKey(type, id) : id \in DOMAIN store[type]}

Command(cmd, key, arg) == [cmd |-> cmd, key |-> key, arg |-> arg]

\* one write command; a set that loses its last member is deleted with its key
Execute(store, c) ==
  CASE c.cmd = "HSET" -> PutKey(store, c.key, c.arg @@ HGETALL(store, c.key))
    [] c.cmd = "DEL"  -> DeleteKey(store, c.key)
    [] c.cmd = "SADD" -> PutKey(store, c.key, SMEMBERS(store, c.key) \cup {c.arg})
    [] c.cmd = "SREM" ->
         IF SMEMBERS(store, c.key) \ {c.arg} = {} THEN DeleteKey(store, c.key)
         ELSE PutKey(store, c.key, SMEMBERS(store, c.key) \ {c.arg})
    [] OTHER -> store

\* redis.pipeline(commands): the commands in order
RECURSIVE pipeline(_, _)
pipeline(store, commands) ==
  IF commands = <<>> THEN store
  ELSE pipeline(Execute(store, Head(commands)), Tail(commands))

\* the ids that are a member of some set of the store
MemberIds(store) ==
  LET Members(type) == UNION {SMEMBERS(store, k) : k \in KEYS(store, type)}
  IN  Members("docs") \cup Members("ngram") \cup Members("edgegram")

\* the orders the members of a set can come in
Orders(S) ==
  {order \in [1..Cardinality(S) -> S] : \A d \in S : \E i \in DOMAIN order : order[i] = d}

\* a set as a sequence, in the order of the ids in order
InOrder(members, order) == SelectSeq(order, LAMBDA d : d \in members)

\* JSON text of a value that JSON represents exactly (arrays of strings,
\* objects of strings); any other stored string does not parse
JSONstringify(value) == <<"json", value>>
JSONparses(text) == Len(text) = 2 /\ text[1] = "json"
JSONparse(text) == text[2]

\* ------------------------------------------------------------------------
\* UnifiedRedisAdapter
\* ------------------------------------------------------------------------

\* a non-empty string, or a field that is present
Truthy(hash, field) == field \in DOMAIN hash /\ hash[field] # <<>>

\* the names of the commands in a pipeline
CommandNames(commands) == {commands[i].cmd : i \in 1..Len(commands)}

\* the pipeline of removeDocumentFromIndexesFallback, built from two KEYS scans
FallbackCommands(store, id) ==
  LET keys == KEYS(store, "ngram") \cup KEYS(store, "edgegram")
      Retract[ks \in SUBSET keys] ==
        IF ks = {} THEN <<>>
        ELSE LET k == CHOOSE k \in ks : TRUE
             IN  <<Command("SREM", k, id)>> \o Retract[ks \ {k}]
  IN  Retract[keys] \o <<Command("DEL", getKey("doc", id), <<>>),
                         Command("SREM", getKey("docs", "all"), id)>>

removeDocumentFromIndexesFallback(store, id) ==
  pipeline(store, FallbackCommands(store, id))

\* whether removeDocument takes the fallback: a terms field that does not parse
TakesFallback(store, id) ==
  LET doc == HGETALL(store, getKey("doc", id))
  IN  Truthy(doc, "terms") /\ ~JSONparses(doc.terms)

\* the pipeline of removeDocument with the SREM of the edgegram key left out
RemoveCommands_NgramOnly(store, id) ==
  LET docKey == getKey("doc", id)
      doc == HGETALL(store, docKey)
      terms == JSONparse(doc.terms)
  IN  (IF Truthy(doc, "terms")
       THEN Array([t \in 1..Len(terms) |->
                     Command("SREM", getKey("ngram", terms[t]), id)])
       ELSE <<>>)
      \o <<Command("DEL", docKey, <<>>),
           Command("SREM", getKey("docs", "all"), id)>>

\* removeDocument that scans the posting sets when the record has no terms
RemoveCommands_ScanPostings(store, id) ==
  LET docKey == getKey("doc", id)
      doc == HGETALL(store, docKey)
      terms == JSONparse(doc.terms)
  IN  IF Truthy(doc, "terms")
      THEN Flatten(Array([t \in 1..Len(terms) |->
                            <<Command("SREM", getKey("ngram", terms[t]), id),
                              Command("SREM", getKey("edgegram", terms[t]), id)>>]))
           \o <<Command("DEL", docKey, <<>>),
                Command("SREM", getKey("docs", "all"), id)>>
      ELSE FallbackCommands(store, id)

\* the pipeline removeDocument sends when it does not take the fallback
RemoveCommands(store, id) ==
  LET docKey == getKey("doc", id)
      doc == HGETALL(store, docKey)
      terms == JSONparse(doc.terms)
  IN  IF Truthy(doc, "terms")
      THEN Flatten(Array([t \in 1..Len(terms) |->
                            <<Command("SREM", getKey("ngram", terms[t]), id),
                              Command("SREM", getKey("edgegram", terms[t]), id)>>]))
           \o <<Command("DEL", docKey, <<>>),
                Command("SREM", getKey("docs", "all"), id)>>
      ELSE <<Command("DEL", docKey, <<>>),
             Command("SREM", getKey("docs", "all"), id)>>

redisRemoveDocument(store, id) ==
  IF TakesFallback(store, id)
  THEN removeDocumentFromIndexesFallback(store, id)
  ELSE pipeline(store, RemoveCommands(store, id))

\* the names of the commands removeDocument issues
RemoveIssued(store, id) ==
  {"HGETALL"} \cup
  (IF TakesFallback(store, id)
   THEN {"KEYS"} \cup CommandNames(FallbackCommands(store, id))
   ELSE CommandNames(RemoveCommands(store, id)))

\* the pipeline indexDocument sends after removeDocument
IndexCommands(cfg, id, content, metadata) ==
  LET docKey == getKey("doc", id)
      terms == generateSearchTerms(cfg, content)
      allTerms == terms.ngrams \o terms.edgegrams
      docData == [content |-> content, terms |-> JSONstringify(allTerms)]
                 @@ (IF metadata # {} THEN [metadata |-> JSONstringify(metadata)]
                     ELSE <<>>)
  IN  <<Command("HSET", docKey, docData),
        Command("EXPIRE", docKey, <<>>),
        Command("SADD", getKey("docs", "all"), id)>>
      \o Flatten(Array([g \in 1..Len(terms.ngrams) |->
                    <<Command("SADD", getKey("ngram", terms.ngrams[g]), id),
                      Command("EXPIRE", getKey("ngram", terms.ngrams[g]), <<>>)>>]))
      \o Flatten(Array([g \in 1..Len(terms.edgegrams) |->
                    <<Command("SADD", getKey("edgegram", terms.edgegrams[g]), id),
                      Command("EXPIRE", getKey("edgegram", terms.edgegrams[g]), <<>>)>>]))

\* indexDocument without its call of removeDocument
redisIndexDocument_NoRemove(store, cfg, id, content, metadata) ==
  pipeline(store, IndexCommands(cfg, id, content, metadata))

redisIndexDocument(store, cfg, id, content, metadata) ==
  pipeline(redisRemoveDocument(store, id), IndexCommands(cfg, id, content, metadata))

IndexIssued(store, cfg, id, content, metadata) ==
  RemoveIssued(store, id) \cup CommandNames(IndexCommands(cfg, id, content, metadata))

\* the replies of one SMEMBERS pipeline as hits; Redis returns the members
\* of a set in an order of its own, here the order of the ids in order
SetHits(store, type, grams, order, weights) ==
  Flatten([g \in 1..Len(grams) |->
             LET members == InOrder(SMEMBERS(store, getKey(type, grams[g])), order)
             IN  [d \in 1..Len(members) |->
                    [id |-> members[d], weight |-> weights[g]]]])

\* boost * edgegramWeight with boost = edgegram.length / maxEdgegram
EdgegramBoost(cfg, edgegram) ==
  Times((Len(edgegram) * Scale) \div cfg.maxEdgegram, cfg.edgegramWeight)

RedisHits(store, cfg, searchTerms, order) ==
  Flatten([t \in 1..Len(searchTerms) |->
             LET terms == generateSearchTerms(cfg, searchTerms[t])
             IN  SetHits(store, "ngram", terms.ngrams, order,
                         [g \in 1..Len(terms.ngrams) |-> cfg.ngramWeight])
                 \o SetHits(store, "edgegram", terms.edgegrams, order,
                            [g \in 1..Len(terms.edgegrams) |->
                               EdgegramBoost(cfg, terms.edgegrams[g])])])

\* documentScores after the hits: every hit id gets an entry, with empty content
RedisAccumulate(hits) ==
  LET ids == Dedup(HitIds(hits))
  IN  Array([i \in 1..Len(ids) |->
               [id |-> ids[i], score |-> HitScore(hits, ids[i]), data |-> NoDocument]])

\* the entry of a candidate after its record was fetched
RedisScored(store, cfg, entry, searchTerms) ==
  LET docData == HGETALL(store, getKey("doc", entry.id))
  IN  [id |-> entry.id,
       score |-> calculateRelevanceScore(cfg, docData.content, searchTerms, 0, 0)
                 + entry.score,
       data |-> [content |-> docData.content,
                 metadata |-> IF Truthy(docData, "metadata")
                              THEN JSONparse(docData.metadata) ELSE {}]]

\* performSearch that keeps the candidates whose record is missing
performSearch_KeepMissing(store, cfg, query, order) ==
  LET norm == normalizeSearchQuery(query)
      candidates == RedisAccumulate(RedisHits(store, cfg, norm.searchTerms, order))
      Record(i) == HGETALL(store, getKey("doc", candidates[i].id))
      scored == Array([i \in 1..Len(candidates) |->
                         IF Truthy(Record(i), "content")
                         THEN RedisScored(store, cfg, candidates[i], norm.searchTerms)
                         ELSE candidates[i]])
  IN  IF ~norm.isValid \/ candidates = <<>>
      THEN [error |-> "none", response |-> createEmptyResponse(query)]
      ELSE [error |-> "none",
            response |-> processSearchResults(cfg, query, scored)]

\* UnifiedRedisAdapter.performSearch: the response, or the error it rejects with
performSearch(store, cfg, query, order) ==
  LET norm == normalizeSearchQuery(query)
      candidates == RedisAccumulate(RedisHits(store, cfg, norm.searchTerms, order))
      Record(i) == HGETALL(store, getKey("doc", candidates[i].id))
      existing == {i \in 1..Len(candidates) : Truthy(Record(i), "content")}
      broken == {i \in existing : /\ Truthy(Record(i), "metadata")
                                  /\ ~JSONparses(Record(i).metadata)}
      kept == SubseqAt(candidates, existing)
      scored == Array([i \in 1..Len(kept) |->
                         RedisScored(store, cfg, kept[i], norm.searchTerms)])
  IN  IF ~norm.isValid \/ candidates = <<>>
      THEN [error |-> "none", response |-> createEmptyResponse(query)]
      ELSE IF broken # {} \/ processSearchResultsThrows(cfg, norm.searchTerms, scored)
           THEN [error |-> "SyntaxError", response |-> createEmptyResponse(query)]
           ELSE [error |-> "none",
                 response |-> processSearchResults(cfg, query, scored)]

\* performSearch that also refreshes the time to live of the records it reads
SearchIssued_Expire(store, cfg, query, order) ==
  LET norm == normalizeSearchQuery(query)
      grams == Flatten(Array([t \in 1..Len(norm.searchTerms) |->
                 LET terms == generateSearchTerms(cfg, norm.searchTerms[t])
                 IN  terms.ngrams \o terms.edgegrams]))
      candidates == RedisAccumulate(RedisHits(store, cfg, norm.searchTerms, order))
  IN  IF ~norm.isValid THEN {}
      ELSE (IF grams # <<>> THEN {"SMEMBERS"} ELSE {})
           \cup (IF candidates # <<>> THEN {"HGETALL", "EXPIRE"} ELSE {})

\* the names of the commands performSearch issues: an SMEMBERS per gram of
\* every term, then an HGETALL per candidate
SearchIssued(store, cfg, query, order) ==
  LET norm == normalizeSearchQuery(query)
      grams == Flatten(Array([t \in 1..Len(norm.searchTerms) |->
                 LET terms == generateSearchTerms(cfg, norm.searchTerms[t])
                 IN  terms.ngrams \o terms.edgegrams]))
      candidates == RedisAccumulate(RedisHits(store, cfg, norm.searchTerms, order))
  IN  IF ~norm.isValid THEN {}
      ELSE (IF grams # <<>> THEN {"SMEMBERS"} ELSE {})
           \cup (IF candidates # <<>> THEN {"HGETALL"} ELSE {})

\* ------------------------------------------------------------------------
\* Inputs
\* ------------------------------------------------------------------------

DocIds == {"a", "b", "c"}

Cat == <<"c","a","t">>
Cats == <<"C","a","t","s">>
CatHat == <<"C","a","t"," ","h","a","t">>

CategoryX == {<<"category", "x">>}
CategoryY == {<<"category", "y">>}

\* the documents the calls of indexDocument are drawn from
DocumentInputs ==
  {[content |-> Cat, metadata |-> CategoryX],
   [content |-> Cat, metadata |-> CategoryY],
   [content |-> Cats, metadata |-> {}],
   [content |-> CatHat, metadata |-> {}]}

\* a SearchQuery; limit 0 and offset 0 stand for an absent limit and offset
\* (the code reads them with ||), filters {} for absent filters
Query(text, limit, offset, filters) ==
  [query |-> text, limit |-> limit, offset |-> offset, filters |-> filters]

EmptyQuery == Query(<<>>, 0, 0, {})

Queries ==
  {Query(<<"H","A","T">>, 0, 0, {}),
   Query(<<"c","a","t">>, 0, 0, {}),
   Query(<<"c","a","t">>, 0, 0, CategoryX),
   Query(<<>>, 0, 0, {}),
   Query(<<" "," ">>, 0, 0, {})}

\* the page sizes and the number of pages a paginated query is asked for
MaxLimit == 2
MaxPages == 2

\* one query asked page by page
PagedQueries ==
  {Query(<<"c","a","t">>, l, l * (p - 1), {}) : l \in 1..MaxLimit, p \in 1..MaxPages}

\* the Maps handed to processSearchResults on its own: at most MaxCandidates
\* entries under distinct ids, with scores below, at and above minScore
MaxCandidates == 3
MaxOffset == 3

CandidateScores ==
  {DEFAULT_SEARCH_CONFIG.minScore - 5, DEFAULT_SEARCH_CONFIG.minScore,
   DEFAULT_SEARCH_CONFIG.minScore + 10}

CandidateMaps ==
  UNION {{[i \in 1..n |-> [id |-> ids[i], score |-> scores[i], data |-> NoDocument]] :
            ids \in {f \in [1..n -> DocIds] : \A i, j \in 1..n : i # j => f[i] # f[j]},
            scores \in [1..n -> CandidateScores]} :
         n \in 0..Min(MaxCandidates, Cardinality(DocIds))}

PageQueries ==
  {Query(<<"c","a","t">>, l, o, {}) : l \in 0..MaxLimit, o \in 0..MaxOffset}

\* the configured capacities (maxDocuments) explored
Capacities == {1, 2}

\* config.maxDocuments || 10000
DefaultMaxDocuments == 10000

\* the documents and queries of the end-to-end scenario
TypeScriptIsAmazing ==
  <<"T","y","p","e","S","c","r","i","p","t"," ","i","s"," ","a","m","a","z","i","n","g">>

WebSocketsEnable ==
  <<"W","e","b","S","o","c","k","e","t","s"," ","e","n","a","b","l","e"," ","r","e","a","l","-","t","i","m","e"," ","c","o","m","m","u","n","i","c","a","t","i","o","n">>

\* the ids used where both adapters are driven
BothIds == {"a", "b"}

ScenarioIds == {"a", "b"}

ScenarioInputs ==
  {[content |-> TypeScriptIsAmazing, metadata |-> {}],
   [content |-> WebSocketsEnable, metadata |-> {}]}

ScenarioQueries ==
  {Query(<<"t","y","p","e","s","c","r","i","p","t">>, 0, 0, {}),
   Query(<<"r","e","a","l"," ","t","i","m","e">>, 0, 0, {})}

\* calls stop when the access counter has reached MaxTick, where pages are
\* collected when it has reached MaxPagingTick
MaxTick == 4
MaxPagingTick == 6

\* ------------------------------------------------------------------------
\* State
\* ------------------------------------------------------------------------

VARIABLES
  searchConfig,         \* BaseSearchAdapter.searchConfig
  maxDocuments,         \* MemoryAdapter.maxDocuments
  documents,            \* MemoryAdapter.documents
  documentAccessOrder,  \* MemoryAdapter.documentAccessOrder
  ngramIndex,           \* MemoryAdapter.ngramIndex
  edgegramIndex,        \* MemoryAdapter.edgegramIndex
  accessCounter,        \* MemoryAdapter.accessCounter
  lastCall,             \* the call that was made last, with what it replaced
  documentScores,       \* the Map the last call handed to processSearchResults
  response,             \* the SearchResponse of the last call, if it was a search
  scenario,             \* how far the calls so far follow "index a, b, [search], c"
  paging,               \* the pages collected by consecutive searches of one query
  redis,                \* the store behind UnifiedRedisAdapter.redis
  redisResponse,        \* what the last search of the UnifiedRedisAdapter ended in
  issued,               \* the names of the commands the last call sent to the store
  thrown,               \* the error the last call of the MemoryAdapter threw, or "none"
  pending,              \* the search of the UnifiedRedisAdapter in flight and its timer
  analyzed,             \* a call of the text analyzer on its own: arguments and result
  stream,               \* PlugNPlayServer.search: the 'search-stream' events emitted
  searchIndex,          \* the InMemorySearchIndex and its last call
  limiter,              \* the MessageRateLimiter, the clock and its last call
  boosted,              \* a call of calculateRelevanceScore on its own
  racing,               \* a search and a removeDocument of the UnifiedRedisAdapter
                        \* in flight at once: what each has read so far
  highlighted,          \* a call of generateHighlights on its own
  sessions,             \* the session records of both adapters and the last call
  reindexing,           \* two indexDocument calls of the UnifiedRedisAdapter in flight
  client,               \* PlugNPlayClient.search: the calls outstanding on one socket
  server                \* PlugNPlayServer: the sockets, the sessions and the events

memoryVars ==
  <<documents, documentAccessOrder, ngramIndex, edgegramIndex, accessCounter>>

redisVars == <<redis, redisResponse, issued, pending>>

\* the components beside the two adapters
laterVars == <<highlighted, sessions, reindexing, client, server>>

otherVars == <<stream, searchIndex, limiter, boosted, racing, laterVars>>

\* what no call of an adapter changes
fixedVars == <<searchConfig, maxDocuments, analyzed, otherVars>>

vars ==
  <<searchConfig, maxDocuments, documents, documentAccessOrder, ngramIndex,
    edgegramIndex, accessCounter, lastCall, documentScores, response, scenario,
    paging, redis, redisResponse, issued, thrown, pending, analyzed, stream,
    searchIndex, limiter, boosted, racing, highlighted, sessions, reindexing,
    client, server>>

\* the MemoryAdapter as one record
Memory ==
  [documents           |-> documents,
   documentAccessOrder |-> documentAccessOrder,
   ngramIndex          |-> ngramIndex,
   edgegramIndex       |-> edgegramIndex,
   accessCounter       |-> accessCounter]

SetMemory(m) ==
  /\ documents' = m.documents
  /\ documentAccessOrder' = m.documentAccessOrder
  /\ ngramIndex' = m.ngramIndex
  /\ edgegramIndex' = m.edgegramIndex
  /\ accessCounter' = m.accessCounter

EmptyMemory ==
  [documents |-> <<>>, documentAccessOrder |-> <<>>, ngramIndex |-> <<>>,
   edgegramIndex |-> <<>>, accessCounter |-> 0]

NoCall ==
  [op |-> "none", id |-> NoId, doc |-> NoDocument, query |-> EmptyQuery,
   replaced |-> FALSE, prior |-> NoDocument, evicted |-> {}]

NoResponse == createEmptyResponse(EmptyQuery)

NoPaging ==
  [active |-> FALSE, query |-> EmptyQuery, next |-> 0, pages |-> <<>>,
   full |-> <<>>, done |-> FALSE]

\* the ids search touches: the candidates, all of which get a new tick
Touched(m, cfg, query) ==
  LET candidates == MemoryCandidates(m, cfg, normalizeSearchQuery(query).searchTerms)
  IN  {candidates[i].id : i \in 1..Len(candidates)}

\* the ranked list one search returns when its page holds every result
FullRanking(m, cfg, query) ==
  search(m, cfg, [query EXCEPT !.limit = Cardinality(DocIds) + 1, !.offset = 0])
    .response.results

ScenarioAfterIndex(id) ==
  CASE scenario = "start" /\ id = "a" -> "a"
    [] scenario = "a" /\ id = "b" -> "ab"
    [] scenario = "ab" /\ id = "c" -> "abc"
    [] scenario = "abS" /\ id = "c" -> "abSc"
    [] OTHER -> "off"

ScenarioAfterSearch(touched) ==
  IF scenario = "ab" /\ "a" \in touched /\ "b" \notin touched THEN "abS" ELSE "off"

PagingAfterSearch(query, resp, full) ==
  IF query.offset = 0
  THEN [active |-> TRUE, query |-> query, next |-> QueryLimit(query),
        pages |-> resp.results, full |-> full, done |-> ~resp.hasMore]
  ELSE IF /\ paging.active /\ ~paging.done
          /\ query = [paging.query EXCEPT !.offset = paging.next]
       THEN [paging EXCEPT !.next = @ + QueryLimit(query),
                           !.pages = @ \o resp.results,
                           !.done = ~resp.hasMore]
       ELSE NoPaging

NoRedisResponse == [error |-> "none", response |-> NoResponse]

\* no search in flight: performSearch not started, no timer set
NoPending == [search |-> "none", timer |-> "none", query |-> EmptyQuery]

NoAnalysis ==
  [fn |-> "none", text |-> <<>>, n |-> 0, minGram |-> 0, maxGram |-> 0,
   grams |-> <<>>]

\* no streamed search yet
NoStream ==
  [streaming |-> FALSE, connected |-> FALSE, results |-> <<>>, emitted |-> <<>>]

NoIndexCall == [op |-> "none", id |-> "", query |-> <<>>, filters |-> <<>>,
                limit |-> 0, offset |-> 0]

\* new InMemorySearchIndex({searchFields})
NewSearchIndex(searchFields) ==
  [searchFields |-> searchFields, documents |-> <<>>, ngramIndex |-> <<>>,
   call |-> NoIndexCall, prior |-> <<>>, results |-> <<>>]

NoLimiterCall == [op |-> "none", identifier |-> "", allowed |-> FALSE]

\* new MessageRateLimiter(maxMessages, timeWindowMs) at time 0; granted counts,
\* per identifier, the calls of isAllowed that returned true since the
\* window of the identifier was last reset
NewLimiter(maxMessages, timeWindowMs) ==
  [maxMessages |-> maxMessages, timeWindow |-> timeWindowMs,
   messageCounts |-> <<>>, now |-> 0, granted |-> <<>>, call |-> NoLimiterCall]

NoBoost ==
  [applied |-> FALSE, content |-> <<>>, searchTerms |-> <<>>,
   ngramMatches |-> 0, edgegramMatches |-> 0, score |-> 0]

\* neither a search nor a removeDocument in flight
\*   search      "idle", "grams" (the SMEMBERS pipelines of the term at index
\*               term are being answered), "docs" (the HGETALL pipeline is
\*               being answered) or "done"
\*   ngramLeft, edgegramLeft      the grams whose SMEMBERS is not answered yet
\*   ngramResults, edgegramResults  the replies so far, as hits
\*   hits, candidates, records    the hits of the terms before, documentScores
\*               before the records are fetched, the HGETALL replies so far
\*   remove      "idle", "pipeline" (the record was read, commands of the
\*               pipeline are left) or "done"
\*   startStore, overlapped       the store when the search started and the
\*               ids whose removeDocument was in flight during the search
NoRace ==
  [search |-> "idle", query |-> EmptyQuery, order |-> <<>>, term |-> 0,
   ngramLeft |-> <<>>, edgegramLeft |-> <<>>,
   ngramResults |-> <<>>, edgegramResults |-> <<>>,
   hits |-> <<>>, candidates |-> <<>>, records |-> <<>>,
   remove |-> "idle", id |-> "", commands |-> <<>>,
   startStore |-> EmptyStore, overlapped |-> {}]

\* the default limits of the MessageRateLimiter
DefaultMaxMessages == 100
DefaultTimeWindowMs == 60000

\* the components beside the adapters after construction
NoHighlights ==
  [applied |-> FALSE, content |-> <<>>, searchTerms |-> <<>>,
   maxHighlights |-> 0, contextLength |-> 0, highlights |-> <<>>]

\*   memory   MemoryAdapter.sessions: session id -> SessionMetadata
\*   keys     the session keys of the store: session id -> hash
\*   active   the members of the set sessions:active
\*   now      the clock
\*   call     the last call, the members of sessions:active before it and
\*            what getSession and getAllSessions returned
NoSessionCall ==
  [op |-> "none", id |-> "", before |-> {}, memoryFound |-> FALSE,
   redisFound |-> FALSE, memoryListed |-> {}, redisListed |-> {}]

NoSessions ==
  [memory |-> <<>>, keys |-> <<>>, active |-> {}, now |-> 0, call |-> NoSessionCall]
\* an indexDocument call of the UnifiedRedisAdapter: "idle", "read" (the
\* record was read by removeDocument), "removed" (the pipeline of
\* removeDocument was executed) or "done"
IdleCall == [stage |-> "idle", content |-> <<>>, doc |-> <<>>]

\* the two calls, and whether they have ever been in flight at once
NoReindex == [calls |-> <<IdleCall, IdleCall>>, overlapped |-> FALSE]
\* a search call of the PlugNPlayClient: "idle", "waiting" (its promise is
\* pending) or "resolved"; result is "null" or the response it resolved with
IdleSearch == [state |-> "idle", query |-> "", result |-> "null"]

\* a connected client: its two search calls, the calls whose handleResult and
\* handleError listeners are registered on the socket, the 'search' events the
\* server has not answered, and the events on their way to the client
NoClient == [calls |-> <<IdleSearch, IdleSearch>>, listeners |-> {},
             requests |-> <<>>, responses |-> <<>>]
\* a socket of the PlugNPlayServer and its session: state is "new" (not yet
\* connected), "open" or "closed"; active is membership in activeSockets,
\* stored that the adapter holds the session; listening counts the calls of
\* handleDisconnection made by the 'disconnect' listener that await
\* deleteSession, forced is "deleting" while disconnectSocket awaits its call
\* of handleDisconnection; deleted and emitted count the deleteSession calls
\* and the 'disconnect' events of the session
NewSocket == [state |-> "new", active |-> FALSE, stored |-> FALSE, listening |-> 0,
              forced |-> "no", deleted |-> 0, emitted |-> 0]

ServerSockets == {1, 2, 3}

NoServer == [sockets |-> [s \in ServerSockets |-> NewSocket], isShuttingDown |-> FALSE]

\* the components that take no part in a specification
Later ==
  /\ highlighted = NoHighlights
  /\ sessions = NoSessions
  /\ reindexing = NoReindex
  /\ client = NoClient
  /\ server = NoServer

Others ==
  /\ Later
  /\ stream = NoStream
  /\ searchIndex = NewSearchIndex(<<>>)
  /\ limiter = NewLimiter(DefaultMaxMessages, DefaultTimeWindowMs)
  /\ boosted = NoBoost
  /\ racing = NoRace

\* the adapters after construction, the store empty
Adapters ==
  /\ searchConfig = DEFAULT_SEARCH_CONFIG
  /\ documents = EmptyMemory.documents
  /\ documentAccessOrder = EmptyMemory.documentAccessOrder
  /\ ngramIndex = EmptyMemory.ngramIndex
  /\ edgegramIndex = EmptyMemory.edgegramIndex
  /\ accessCounter = EmptyMemory.accessCounter
  /\ response = NoResponse
  /\ scenario = "start"
  /\ paging = NoPaging
  /\ redis = EmptyStore
  /\ redisResponse = NoRedisResponse
  /\ issued = {}
  /\ thrown = "none"
  /\ pending = NoPending

\* no call made yet
Constructed ==
  /\ Adapters
  /\ Others
  /\ analyzed = NoAnalysis
  /\ lastCall = NoCall
  /\ documentScores = <<>>

\* ------------------------------------------------------------------------
\* Calls
\* ------------------------------------------------------------------------

\* MemoryAdapter.indexDocument(id, doc.content, doc.metadata)
MemoryIndexCall(id, doc) ==
  /\ LET m == indexDocument(Memory, searchConfig, maxDocuments, id,
                            doc.content, doc.metadata)
     IN  /\ SetMemory(m)
         /\ lastCall' = [op |-> "indexDocument", id |-> id, doc |-> doc,
                         query |-> EmptyQuery,
                         replaced |-> id \in DOMAIN documents,
                         prior |-> IF id \in DOMAIN documents THEN documents[id]
                                   ELSE NoDocument,
                         evicted |-> (DOMAIN documents) \ (DOMAIN m.documents)]
  /\ documentScores' = <<>>
  /\ response' = NoResponse
  /\ thrown' = "none"
  /\ scenario' = ScenarioAfterIndex(id)
  /\ paging' = NoPaging
  /\ UNCHANGED fixedVars

\* MemoryAdapter.removeDocument(id)
MemoryRemoveCall(id) ==
  /\ SetMemory(removeDocument(Memory, id))
  /\ lastCall' = [op |-> "removeDocument", id |-> id, doc |-> NoDocument,
                  query |-> EmptyQuery,
                  replaced |-> id \in DOMAIN documents,
                  prior |-> IF id \in DOMAIN documents THEN documents[id]
                            ELSE NoDocument,
                  evicted |-> {}]
  /\ documentScores' = <<>>
  /\ response' = NoResponse
  /\ thrown' = "none"
  /\ scenario' = "off"
  /\ paging' = NoPaging
  /\ UNCHANGED fixedVars

\* MemoryAdapter.search(query)
MemorySearchCall(query) ==
  /\ LET out == search(Memory, searchConfig, query)
     IN  /\ SetMemory(out.adapter)
         /\ documentScores' = out.documentScores
         /\ response' = IF out.error = "none" THEN out.response ELSE NoResponse
         /\ thrown' = out.error
         /\ paging' = PagingAfterSearch(query, out.response,
                                        FullRanking(Memory, searchConfig, query))
  /\ lastCall' = [NoCall EXCEPT !.op = "search", !.query = query]
  /\ scenario' = ScenarioAfterSearch(Touched(Memory, searchConfig, query))
  /\ UNCHANGED fixedVars

\* UnifiedRedisAdapter.indexDocument, removeDocument and search (the search
\* answered before its timeout)
RedisIndexCall(id, doc) ==
  /\ redis' = redisIndexDocument(redis, searchConfig, id, doc.content, doc.metadata)
  /\ issued' = IndexIssued(redis, searchConfig, id, doc.content, doc.metadata)
  /\ redisResponse' = NoRedisResponse
  /\ pending' = NoPending

RedisRemoveCall(id) ==
  /\ redis' = redisRemoveDocument(redis, id)
  /\ issued' = RemoveIssued(redis, id)
  /\ redisResponse' = NoRedisResponse
  /\ pending' = NoPending

RedisSearchCall(query) ==
  /\ \E order \in Orders(MemberIds(redis)) :
       /\ redisResponse' = performSearch(redis, searchConfig, query, order)
       /\ issued' = SearchIssued(redis, searchConfig, query, order)
  /\ redis' = redis
  /\ pending' = NoPending

\* the ticks a call of indexDocument and a call of search(query) take
IndexTicks == 1
SearchTicks(query) == Cardinality(Touched(Memory, searchConfig, query))

\* --- the MemoryAdapter alone, with a small capacity ---

Init ==
  /\ Constructed
  /\ maxDocuments \in Capacities

MemoryIndexDocument(id, doc) ==
  /\ accessCounter + IndexTicks <= MaxTick
  /\ MemoryIndexCall(id, doc)
  /\ UNCHANGED redisVars

MemoryRemoveDocument(id) == MemoryRemoveCall(id) /\ UNCHANGED redisVars

MemorySearch(query) ==
  /\ accessCounter + SearchTicks(query) <= MaxTick
  /\ MemorySearchCall(query)
  /\ UNCHANGED redisVars

Next ==
  \/ \E id \in DocIds, doc \in DocumentInputs : MemoryIndexDocument(id, doc)
  \/ \E id \in DocIds : MemoryRemoveDocument(id)
  \/ \E query \in Queries : MemorySearch(query)

Spec == Init /\ [][Next]_vars

\* --- both adapters given the same calls, the memory capacity never reached ---

BothInit ==
  /\ Constructed
  /\ maxDocuments = DefaultMaxDocuments

BothIndexDocument(id, doc) ==
  /\ accessCounter + IndexTicks <= MaxTick
  /\ MemoryIndexCall(id, doc)
  /\ RedisIndexCall(id, doc)

BothRemoveDocument(id) == MemoryRemoveCall(id) /\ RedisRemoveCall(id)

BothSearch(query) ==
  /\ accessCounter + SearchTicks(query) <= MaxTick
  /\ MemorySearchCall(query)
  /\ RedisSearchCall(query)

BothNext ==
  \/ \E id \in BothIds, doc \in DocumentInputs : BothIndexDocument(id, doc)
  \/ \E id \in BothIds : BothRemoveDocument(id)
  \/ \E query \in Queries : BothSearch(query)

BothSpec == BothInit /\ [][BothNext]_vars

\* --- the MemoryAdapter on the documents of the end-to-end scenario ---

ScenarioIndexDocument(id, doc) ==
  /\ accessCounter + IndexTicks <= MaxTick
  /\ MemoryIndexCall(id, doc)
  /\ UNCHANGED redisVars

ScenarioRemoveDocument(id) == MemoryRemoveCall(id) /\ UNCHANGED redisVars

ScenarioSearch(query) ==
  /\ accessCounter + SearchTicks(query) <= MaxTick
  /\ MemorySearchCall(query)
  /\ UNCHANGED redisVars

ScenarioNext ==
  \/ \E id \in ScenarioIds, doc \in ScenarioInputs : ScenarioIndexDocument(id, doc)
  \/ \E id \in ScenarioIds : ScenarioRemoveDocument(id)
  \/ \E query \in ScenarioQueries : ScenarioSearch(query)

ScenarioSpec == BothInit /\ [][ScenarioNext]_vars

\* --- the MemoryAdapter asked for one query page by page ---

PagingIndexDocument(id, doc) ==
  /\ accessCounter + IndexTicks <= MaxPagingTick
  /\ MemoryIndexCall(id, doc)
  /\ UNCHANGED redisVars

PagingRemoveDocument(id) == MemoryRemoveCall(id) /\ UNCHANGED redisVars

PagingSearch(query) ==
  /\ accessCounter + SearchTicks(query) <= MaxPagingTick
  /\ MemorySearchCall(query)
  /\ UNCHANGED redisVars

PagingNext ==
  \/ \E id \in BothIds, doc \in DocumentInputs : PagingIndexDocument(id, doc)
  \/ \E id \in BothIds : PagingRemoveDocument(id)
  \/ \E query \in PagedQueries : PagingSearch(query)

PagingSpec == Init /\ [][PagingNext]_vars

\* --- both adapters, the store also changed by expiry and by other clients ---

\* the types of the posting keys, which share the time to live ttl.index
PostingTypes == {"ngram", "edgegram"}

StoreInputs ==
  {[content |-> Cat, metadata |-> CategoryX],
   [content |-> CatHat, metadata |-> {}]}

StoreQueries ==
  {Query(<<"c","a","t">>, 0, 0, {})}

\* a stored string that JSON.parse rejects
NotJSON == <<"{">>

StoreEvent(store) ==
  /\ redis' = store
  /\ lastCall' = [NoCall EXCEPT !.op = "store"]
  /\ redisResponse' = NoRedisResponse
  /\ issued' = {}
  /\ pending' = NoPending
  /\ UNCHANGED <<fixedVars, memoryVars, documentScores, response, scenario, paging,
                 thrown>>

\* the time to live ttl.document of a document record runs out
KeyExpires(key) ==
  /\ KeyExists(redis, key)
  /\ StoreEvent(DeleteKey(redis, key))

\* ttl.index has passed since the last indexDocument: no posting key is left
PostingsExpire ==
  /\ \E type \in PostingTypes : KEYS(redis, type) # {}
  /\ StoreEvent([redis EXCEPT !.ngram = <<>>, !.edgegram = <<>>])

\* another client of the store writes the metadata field of a document record
OtherClientWrites(id) ==
  /\ KeyExists(redis, getKey("doc", id))
  /\ StoreEvent(Execute(redis, Command("HSET", getKey("doc", id),
                                       [metadata |-> NotJSON])))

StoreNext ==
  \/ \E id \in BothIds, doc \in StoreInputs : BothIndexDocument(id, doc)
  \/ \E id \in BothIds : BothRemoveDocument(id)
  \/ \E query \in StoreQueries : BothSearch(query)
  \/ \E key \in KEYS(redis, "doc") : KeyExpires(key)
  \/ PostingsExpire
  \/ \E id \in BothIds : OtherClientWrites(id)

StoreSpec == BothInit /\ [][StoreNext]_vars

\* --- UnifiedRedisAdapter.search as a race of performSearch and its timer ---

\* the search promise not settled yet
Unsettled == [error |-> "pending", response |-> NoResponse]

\* timeout that resolves with the empty response
TimeoutOutcome_Empty(query) ==
  [error |-> "none", response |-> createEmptyResponse(query)]

\* reject(new Error('Search timeout')), rethrown by the catch of search
TimeoutOutcome(query) == [error |-> "Search timeout", response |-> NoResponse]

\* the pipeline of the backend rejects; search rethrows its error
BackendError == [error |-> "backend", response |-> NoResponse]

\* Promise.race: the first settlement is the outcome, later ones are ignored
Race(outcome) == IF redisResponse = Unsettled THEN outcome ELSE redisResponse

InFlight(state, timer, query) ==
  [search |-> state, timer |-> timer, query |-> query]

TimeoutStep(op, query) ==
  /\ lastCall' = [NoCall EXCEPT !.op = op, !.query = query]
  /\ UNCHANGED <<fixedVars, memoryVars, documentScores, response, scenario,
                 paging, thrown>>

\* indexDocument and removeDocument, awaited while no search is in flight; the
\* timer left over from a settled search has no effect and is dropped
TimeoutIndexDocument(id, doc) ==
  /\ pending.search # "running"
  /\ RedisIndexCall(id, doc)
  /\ TimeoutStep("indexDocument", EmptyQuery)

TimeoutRemoveDocument(id) ==
  /\ pending.search # "running"
  /\ RedisRemoveCall(id)
  /\ TimeoutStep("removeDocument", EmptyQuery)

\* search(query): the timer is set and performSearch is started
StartSearch(query) ==
  /\ pending.search # "running"
  /\ pending' = InFlight("running", "armed", query)
  /\ redisResponse' = Unsettled
  /\ issued' = {}
  /\ redis' = redis
  /\ TimeoutStep("search", query)

\* the backend replies and performSearch resolves or rejects
BackendAnswers ==
  /\ pending.search = "running"
  /\ \E order \in Orders(MemberIds(redis)) :
       /\ redisResponse' =
            Race(performSearch(redis, searchConfig, pending.query, order))
       /\ issued' = SearchIssued(redis, searchConfig, pending.query, order)
  /\ pending' = [pending EXCEPT !.search = "answered"]
  /\ redis' = redis
  /\ TimeoutStep("answer", pending.query)

\* the backend is unavailable: the pipeline rejects
BackendFails ==
  /\ pending.search = "running"
  /\ redisResponse' = Race(BackendError)
  /\ pending' = [pending EXCEPT !.search = "failed"]
  /\ UNCHANGED <<redis, issued>>
  /\ TimeoutStep("fail", pending.query)

\* the 10 seconds are over; the timer is never cleared, so it also fires
\* after performSearch has settled
TimerFires ==
  /\ pending.timer = "armed"
  /\ redisResponse' = Race(TimeoutOutcome(pending.query))
  /\ pending' = [pending EXCEPT !.timer = "fired"]
  /\ UNCHANGED <<redis, issued>>
  /\ TimeoutStep("timer", pending.query)

TimeoutNext ==
  \/ \E id \in BothIds, doc \in StoreInputs : TimeoutIndexDocument(id, doc)
  \/ \E id \in BothIds : TimeoutRemoveDocument(id)
  \/ \E query \in Queries : StartSearch(query)
  \/ BackendAnswers
  \/ BackendFails
  \/ TimerFires

TimeoutSpec == BothInit /\ [][TimeoutNext]_vars

\* --- both adapters, contents and queries with a regular-expression character ---

CatParen == <<"c","a","t","(">>

HighlightInputs ==
  {[content |-> Cat, metadata |-> {}], [content |-> CatParen, metadata |-> {}]}

HighlightQueries == {Query(Cat, 0, 0, {}), Query(CatParen, 0, 0, {})}

HighlightNext ==
  \/ \E id \in BothIds, doc \in HighlightInputs : BothIndexDocument(id, doc)
  \/ \E id \in BothIds : BothRemoveDocument(id)
  \/ \E query \in HighlightQueries : BothSearch(query)

HighlightSpec == BothInit /\ [][HighlightNext]_vars

\* --- the MemoryAdapter with a small capacity, the empty string among the ids ---

CapacityIds == {"", "a", "b"}

CapacityInputs ==
  {[content |-> Cat, metadata |-> {}], [content |-> CatHat, metadata |-> {}]}

CapacityNext ==
  \/ \E id \in CapacityIds, doc \in CapacityInputs : MemoryIndexDocument(id, doc)
  \/ \E id \in CapacityIds : MemoryRemoveDocument(id)
  \/ \E query \in StoreQueries : MemorySearch(query)

CapacitySpec == Init /\ [][CapacityNext]_vars

\* --- the text analyzer on its own ---

MaxTextLen == 4
MaxGram == 3

\* a lower-case letter, an upper-case letter, a space and a character that is
\* neither a word character nor whitespace
TextChars == {"a", "B", " ", "-"}

RECURSIVE TextsOfLen(_)
TextsOfLen(len) ==
  IF len = 0 THEN {<<>>}
  ELSE {Append(t, c) : t \in TextsOfLen(len - 1), c \in TextChars}

Texts ==
  UNION {TextsOfLen(len) : len \in 0..MaxTextLen} \cup {Cat, Cats, <<"a","b">>}

AnalyzerStep ==
  UNCHANGED <<searchConfig, maxDocuments, memoryVars, redisVars, lastCall,
              documentScores, response, scenario, paging, thrown, otherVars>>

\* a text is given; no function has been applied to it yet
AnalyzerInit ==
  /\ Adapters
  /\ Others
  /\ lastCall = NoCall
  /\ documentScores = <<>>
  /\ maxDocuments = DefaultMaxDocuments
  /\ \E text \in Texts : analyzed = [NoAnalysis EXCEPT !.text = text]

BuildNGrams(n) ==
  /\ analyzed.fn = "none"
  /\ analyzed' = [analyzed EXCEPT !.fn = "buildNGrams", !.n = n,
                                  !.grams = buildNGrams(analyzed.text, n)]
  /\ AnalyzerStep

BuildEdgeGrams(minGram, maxGram) ==
  /\ analyzed.fn = "none"
  /\ analyzed' = [analyzed EXCEPT !.fn = "buildEdgeGrams", !.minGram = minGram,
                                  !.maxGram = maxGram,
                                  !.grams = buildEdgeGrams(analyzed.text,
                                                           minGram, maxGram)]
  /\ AnalyzerStep

AnalyzerNext ==
  \/ \E n \in 1..MaxGram : BuildNGrams(n)
  \/ \E minGram \in 1..MaxGram, maxGram \in 1..MaxGram :
       BuildEdgeGrams(minGram, maxGram)

AnalyzerSpec == AnalyzerInit /\ [][AnalyzerNext]_vars

\* --- both adapters, documents that match one term to different degrees ---

Ca == <<"c","a">>

RankInputs ==
  {[content |-> Ca, metadata |-> {}],
   [content |-> Cat, metadata |-> {}],
   [content |-> Cats, metadata |-> {}]}

\* queries of a single term
RankQueries ==
  {Query(Ca, 0, 0, {}), Query(Cat, 0, 0, {}), Query(<<"c","a","t","s">>, 0, 0, {})}

RankNext ==
  \/ \E id \in BothIds, doc \in RankInputs : BothIndexDocument(id, doc)
  \/ \E id \in BothIds : BothRemoveDocument(id)
  \/ \E query \in RankQueries : BothSearch(query)

RankSpec == BothInit /\ [][RankNext]_vars

\* --- PlugNPlayServer.search over the MemoryAdapter ---

\* targetSessionId: not given, the id of a session with a socket, or an id
\* findSocketBySessionId finds no socket for
Targets == {"none", "connected", "unknown"}

StreamInputs ==
  {[content |-> Cat, metadata |-> {}], [content |-> CatHat, metadata |-> {}]}

StreamQueries ==
  {Query(Cat, 0, 0, {}), Query(Cat, 1, 0, {}), Query(<<"H","A","T">>, 0, 0, {})}

\* the 'search-stream' events of one search: a chunk per result of the page
StreamOf(results) ==
  [i \in 1..Len(results) |-> [chunk |-> results[i], isLast |-> (i = Len(results))]]

StreamIndexDocument(id, doc) == MemoryIndexDocument(id, doc)

StreamRemoveDocument(id) == MemoryRemoveDocument(id)

\* PlugNPlayServer.search(query, targetSessionId) with query.streaming; when
\* adapter.search throws, nothing is emitted
StreamSearch(query, streaming, target) ==
  /\ accessCounter + SearchTicks(query) <= MaxTick
  /\ LET out == search(Memory, searchConfig, query)
         results == IF out.error = "none" THEN out.response.results ELSE <<>>
     IN  /\ SetMemory(out.adapter)
         /\ documentScores' = out.documentScores
         /\ response' = IF out.error = "none" THEN out.response ELSE NoResponse
         /\ thrown' = out.error
         /\ stream' = [streaming |-> streaming,
                       connected |-> (target = "connected"),
                       results |-> results,
                       emitted |-> IF streaming /\ target = "connected"
                                   THEN StreamOf(results) ELSE <<>>]
  /\ lastCall' = [NoCall EXCEPT !.op = "search", !.query = query]
  /\ scenario' = "off"
  /\ paging' = NoPaging
  /\ UNCHANGED <<searchConfig, maxDocuments, analyzed, searchIndex, limiter,
                 boosted, racing, redisVars,
              laterVars>>

StreamNext ==
  \/ \E id \in BothIds, doc \in StreamInputs : StreamIndexDocument(id, doc)
  \/ \E id \in BothIds : StreamRemoveDocument(id)
  \/ \E query \in StreamQueries, streaming \in BOOLEAN, target \in Targets :
       StreamSearch(query, streaming, target)

StreamSpec == BothInit /\ [][StreamNext]_vars

\* --- the InMemorySearchIndex ---
\* A document is a function from field names to strings; Object.keys lists
\* its fields in the order of FieldOrder.  A posting set is the sequence of
\* its members in insertion order.

DefaultNgramSize == 3
DefaultIndexLimit == 10

\* an option that is not given
Unset == -1

FieldOrder == <<"title", "category">>

\* generateNgrams: the windows of `__${text}__` in lower case
generateNgrams(text) ==
  LET paddedText == <<"_", "_">> \o toLowerCase(text) \o <<"_", "_">>
  IN  Array([i \in 1..(Len(paddedText) - DefaultNgramSize + 1) |->
               SubSeq(paddedText, i, i + DefaultNgramSize - 1)])

extractSearchableText(ix, data) ==
  LET Present(f) == f \in DOMAIN data
      fields == SelectSeq(IF ix.searchFields = <<>> THEN FieldOrder
                          ELSE ix.searchFields, Present)
  IN  Array([i \in 1..Len(fields) |-> data[fields[i]]])

\* the n-grams of every searchable text of a document
SearchableNgrams(ix, data) ==
  LET texts == extractSearchableText(ix, data)
  IN  Flatten(Array([t \in 1..Len(texts) |-> generateNgrams(texts[t])]))

\* the loop of remove: the id leaves the set of each of the grams; an empty
\* set is deleted with its key
RemoveIdFromGrams(index, grams, id) ==
  LET After(g) == IF g \in Range(grams) THEN SetDelete(index[g], id) ELSE index[g]
  IN  [g \in {g \in DOMAIN index : After(g) # <<>>} |-> After(g)]

\* remove that deletes the document and leaves the index as it is
indexRemove_DocumentOnly(ix, id) ==
  [ix EXCEPT !.documents = [d \in (DOMAIN @) \ {id} |-> @[d]]]

\* InMemorySearchIndex.remove
indexRemove(ix, id) ==
  IF id \notin DOMAIN ix.documents THEN ix
  ELSE [ix EXCEPT
          !.ngramIndex = RemoveIdFromGrams(@, SearchableNgrams(ix, ix.documents[id]), id),
          !.documents = [d \in (DOMAIN @) \ {id} |-> @[d]]]

\* InMemorySearchIndex.add
indexAdd(ix, id, data) ==
  LET removed == indexRemove(ix, id)
  IN  [removed EXCEPT
         !.documents = [d \in (DOMAIN @) \cup {id} |-> IF d = id THEN data ELSE @[d]],
         !.ngramIndex = AddIdToMap(@, SearchableNgrams(ix, data), id)]

\* document[filterKey] !== filterValue for no key of filters
passesFilters(document, filters) ==
  \A k \in DOMAIN filters : k \in DOMAIN document /\ document[k] = filters[k]

\* search that applies no filter
indexSearch_NoFilter(ix, query, filters, limit, offset) ==
  LET queryNgrams == generateNgrams(query)
      hits == PostingHits(ix.ngramIndex, queryNgrams, 1)
      ids == SelectSeq(Dedup(HitIds(hits)), LAMBDA id : id \in DOMAIN ix.documents)
      results == Array([i \in 1..Len(ids) |->
                          [id |-> ids[i],
                           score |-> (HitScore(hits, ids[i]) * Scale) \div Len(queryNgrams),
                           data |-> ix.documents[ids[i]]]])
      lim == IF limit = Unset THEN DefaultIndexLimit ELSE limit
      off == IF offset = Unset THEN 0 ELSE offset
  IN  IF trim(query) = <<>> THEN <<>>
      ELSE Slice(SortByScore(results), off, off + lim)

\* InMemorySearchIndex.search(query, {filters, limit, offset}); the score is
\* the share of the query n-grams that hit, in hundredths
indexSearch(ix, query, filters, limit, offset) ==
  LET queryNgrams == generateNgrams(query)
      hits == PostingHits(ix.ngramIndex, queryNgrams, 1)
      Kept(id) == /\ id \in DOMAIN ix.documents
                  /\ passesFilters(ix.documents[id], filters)
      ids == SelectSeq(Dedup(HitIds(hits)), Kept)
      results == Array([i \in 1..Len(ids) |->
                          [id |-> ids[i],
                           score |-> (HitScore(hits, ids[i]) * Scale) \div Len(queryNgrams),
                           data |-> ix.documents[ids[i]]]])
      lim == IF limit = Unset THEN DefaultIndexLimit ELSE limit
      off == IF offset = Unset THEN 0 ELSE offset
  IN  IF trim(query) = <<>> THEN <<>>
      ELSE Slice(SortByScore(results), off, off + lim)

IndexIds == {"a", "b"}

Cot == <<"c","o","t">>
TutorialX == <<"x">>
GuideY == <<"y">>

IndexInputs ==
  {[title |-> Cat, category |-> TutorialX],
   [title |-> Cat, category |-> GuideY],
   [title |-> Cot, category |-> TutorialX],
   [title |-> Cats]}

IndexQueries == {Cat, <<"C","O","T","S">>}

NoFilters == <<>>
IndexFilters == {NoFilters, [category |-> TutorialX]}

IndexLimits == {Unset, 0, 1}
IndexOffsets == {Unset, 1}

IndexStep ==
  UNCHANGED <<searchConfig, maxDocuments, memoryVars, redisVars, lastCall,
              documentScores, response, scenario, paging, thrown, analyzed,
              stream, limiter, boosted, racing,
              laterVars>>

IndexInit ==
  /\ Adapters
  /\ Later
  /\ analyzed = NoAnalysis
  /\ lastCall = NoCall
  /\ documentScores = <<>>
  /\ maxDocuments = DefaultMaxDocuments
  /\ stream = NoStream
  /\ limiter = NewLimiter(DefaultMaxMessages, DefaultTimeWindowMs)
  /\ boosted = NoBoost
  /\ racing = NoRace
  /\ searchIndex \in {NewSearchIndex(<<>>), NewSearchIndex(<<"title">>)}

IndexAdd(id, data) ==
  /\ searchIndex' = [indexAdd(searchIndex, id, data) EXCEPT
                       !.call = [NoIndexCall EXCEPT !.op = "add", !.id = id],
                       !.prior = IF id \in DOMAIN searchIndex.documents
                                 THEN searchIndex.documents[id] ELSE <<>>,
                       !.results = <<>>]
  /\ IndexStep

IndexRemove(id) ==
  /\ searchIndex' = [indexRemove(searchIndex, id) EXCEPT
                       !.call = [NoIndexCall EXCEPT !.op = "remove", !.id = id],
                       !.prior = IF id \in DOMAIN searchIndex.documents
                                 THEN searchIndex.documents[id] ELSE <<>>,
                       !.results = <<>>]
  /\ IndexStep

IndexSearch(query, filters, limit, offset) ==
  /\ searchIndex' = [searchIndex EXCEPT
                       !.call = [op |-> "search", id |-> "", query |-> query,
                                 filters |-> filters, limit |-> limit,
                                 offset |-> offset],
                       !.prior = <<>>,
                       !.results = indexSearch(searchIndex, query, filters,
                                               limit, offset)]
  /\ IndexStep

IndexNext ==
  \/ \E id \in IndexIds, data \in IndexInputs : IndexAdd(id, data)
  \/ \E id \in IndexIds : IndexRemove(id)
  \/ \E query \in IndexQueries, filters \in IndexFilters,
        limit \in IndexLimits, offset \in IndexOffsets :
       IndexSearch(query, filters, limit, offset)

IndexSpec == IndexInit /\ [][IndexNext]_vars

\* --- the MessageRateLimiter and the clock read by Date.now() ---

MaxMessages == 2
MaxWindow == 2
MaxNow == 4

Identifiers == {"user1", "user2"}

\* Map.prototype.set on messageCounts
CountsSet(counts, identifier, record) ==
  [i \in (DOMAIN counts) \cup {identifier} |->
     IF i = identifier THEN record ELSE counts[i]]

\* isAllowed(identifier): the limiter afterwards; call.allowed is what it
\* returns
isAllowed(l, identifier) ==
  LET record == l.messageCounts[identifier]
      Out(counts, granted, allowed) ==
        [l EXCEPT !.messageCounts = counts,
                  !.granted = CountsSet(l.granted, identifier, granted),
                  !.call = [op |-> "isAllowed", identifier |-> identifier,
                            allowed |-> allowed]]
  IN  IF identifier \notin DOMAIN l.messageCounts
      THEN Out(CountsSet(l.messageCounts, identifier,
                         [count |-> 1, lastReset |-> l.now]), 1, TRUE)
      ELSE IF l.now - record.lastReset > l.timeWindow
      THEN Out(CountsSet(l.messageCounts, identifier,
                         [count |-> 1, lastReset |-> l.now]), 1, TRUE)
      ELSE IF record.count < l.maxMessages
      THEN Out(CountsSet(l.messageCounts, identifier,
                         [record EXCEPT !.count = @ + 1]),
               l.granted[identifier] + 1, TRUE)
      ELSE Out(l.messageCounts, l.granted[identifier], FALSE)

\* getRemaining(identifier)
getRemaining(l, identifier) ==
  IF identifier \notin DOMAIN l.messageCounts
  THEN l.maxMessages
  ELSE IF l.now - l.messageCounts[identifier].lastReset > l.timeWindow
  THEN l.maxMessages
  ELSE Max(0, l.maxMessages - l.messageCounts[identifier].count)

\* cleanup(): the records whose window has passed are deleted
limiterCleanup(l) ==
  LET kept == {i \in DOMAIN l.messageCounts :
                 ~(l.now - l.messageCounts[i].lastReset > l.timeWindow)}
  IN  [l EXCEPT !.messageCounts = [i \in kept |-> @[i]],
                !.call = [NoLimiterCall EXCEPT !.op = "cleanup"]]

LimiterStep ==
  UNCHANGED <<searchConfig, maxDocuments, memoryVars, redisVars, lastCall,
              documentScores, response, scenario, paging, thrown, analyzed,
              stream, searchIndex, boosted, racing,
              laterVars>>

LimiterInit ==
  /\ Adapters
  /\ Later
  /\ analyzed = NoAnalysis
  /\ lastCall = NoCall
  /\ documentScores = <<>>
  /\ maxDocuments = DefaultMaxDocuments
  /\ stream = NoStream
  /\ searchIndex = NewSearchIndex(<<>>)
  /\ boosted = NoBoost
  /\ racing = NoRace
  /\ \E maxMessages \in 0..MaxMessages, timeWindowMs \in 1..MaxWindow :
       limiter = NewLimiter(maxMessages, timeWindowMs)

IsAllowed(identifier) ==
  /\ limiter' = isAllowed(limiter, identifier)
  /\ LimiterStep

LimiterCleanup ==
  /\ limiter' = limiterCleanup(limiter)
  /\ LimiterStep

\* a millisecond passes
TimePasses ==
  /\ limiter.now < MaxNow
  /\ limiter' = [limiter EXCEPT !.now = @ + 1,
                                 !.call = [NoLimiterCall EXCEPT !.op = "time"]]
  /\ LimiterStep

LimiterNext ==
  \/ \E identifier \in Identifiers : IsAllowed(identifier)
  \/ LimiterCleanup
  \/ TimePasses

LimiterSpec == LimiterInit /\ [][LimiterNext]_vars

\* --- calculateRelevanceScore on its own ---

CatCat == <<"c","a","t"," ","c","a","t">>
CatTwoSpacesHat == <<"c","a","t"," "," ","H","a","t">>
SpaceCat == <<" ","c","a","t">>
Concat == <<"c","o","n","c","a","t">>
Dog == <<"d","o","g">>

BoostContents == {Cat, Cats, CatHat, CatCat, CatTwoSpacesHat, SpaceCat, Concat, Dog}

\* the query texts whose normalized terms are scored
BoostQueryTexts ==
  {Cat, <<"C","A","T">>, CatHat, CatCat, <<"h","a","t">>, <<"a","t">>,
   <<"d","o","g"," ","c","a","t","s">>}

\* the match contributions handed over by the caller (scaled)
BoostMatches == {0, 150}

BoostStep ==
  UNCHANGED <<searchConfig, maxDocuments, memoryVars, redisVars, lastCall,
              documentScores, response, scenario, paging, thrown, analyzed,
              stream, searchIndex, limiter, racing,
              laterVars>>

BoostInit ==
  /\ Adapters
  /\ Later
  /\ analyzed = NoAnalysis
  /\ lastCall = NoCall
  /\ documentScores = <<>>
  /\ maxDocuments = DefaultMaxDocuments
  /\ stream = NoStream
  /\ searchIndex = NewSearchIndex(<<>>)
  /\ limiter = NewLimiter(DefaultMaxMessages, DefaultTimeWindowMs)
  /\ racing = NoRace
  /\ \E content \in BoostContents, text \in BoostQueryTexts,
        ngramMatches \in BoostMatches, edgegramMatches \in BoostMatches :
       boosted = [NoBoost EXCEPT
                    !.content = content,
                    !.searchTerms =
                      normalizeSearchQuery(Query(text, 0, 0, {})).searchTerms,
                    !.ngramMatches = ngramMatches,
                    !.edgegramMatches = edgegramMatches]

CalculateRelevanceScore ==
  /\ ~boosted.applied
  /\ boosted' = [boosted EXCEPT
                   !.applied = TRUE,
                   !.score = calculateRelevanceScore(searchConfig, boosted.content,
                               boosted.searchTerms, boosted.ngramMatches,
                               boosted.edgegramMatches)]
  /\ BoostStep

BoostSpec == BoostInit /\ [][CalculateRelevanceScore]_vars

\* --- a search and a removeDocument of the UnifiedRedisAdapter interleaved ---
\* Every command is answered by the store on its own: the commands of one
\* pipeline in their order, the commands of different requests in any order.

RaceIds == {"a", "b"}

RaceInputs ==
  {[content |-> Cat, metadata |-> CategoryX],
   [content |-> CatHat, metadata |-> {}]}

RaceQueries ==
  {Query(Cat, 0, 0, {}), Query(<<"H","A","T">>, 0, 0, {}), Query(<<" ">>, 0, 0, {})}

\* the SMEMBERS commands of the search term at index t are sent
LoadTerm(r, cfg, t) ==
  LET terms == generateSearchTerms(cfg, normalizeSearchQuery(r.query).searchTerms[t])
  IN  [r EXCEPT !.term = t,
                !.ngramLeft = terms.ngrams, !.edgegramLeft = terms.edgegrams,
                !.ngramResults = <<>>, !.edgegramResults = <<>>]

\* performSearch after a reply: with both pipelines of a term answered the
\* hits are added up and the next term follows, or the HGETALL pipeline
RECURSIVE AfterReply(_, _)
AfterReply(r, cfg) ==
  IF r.search = "grams" /\ r.ngramLeft = <<>> /\ r.edgegramLeft = <<>>
  THEN LET hits == r.hits \o r.ngramResults \o r.edgegramResults
           candidates == RedisAccumulate(hits)
       IN  IF r.term < Len(normalizeSearchQuery(r.query).searchTerms)
           THEN AfterReply(LoadTerm([r EXCEPT !.hits = hits], cfg, r.term + 1), cfg)
           ELSE [r EXCEPT !.hits = hits,
                          !.ngramResults = <<>>, !.edgegramResults = <<>>,
                          !.candidates = candidates,
                          !.search = IF candidates = <<>> THEN "done" ELSE "docs"]
  ELSE IF r.search = "docs" /\ Len(r.records) = Len(r.candidates)
  THEN [r EXCEPT !.search = "done"]
  ELSE r

\* the last loop of performSearch that keeps the candidates whose record is
\* missing
scoreCandidates_KeepMissing(cfg, query, candidates, records) ==
  LET norm == normalizeSearchQuery(query)
      existing == {i \in 1..Len(candidates) : Truthy(records[i], "content")}
      broken == {i \in existing : /\ Truthy(records[i], "metadata")
                                  /\ ~JSONparses(records[i].metadata)}
      Entry(i) ==
        [id |-> candidates[i].id,
         score |-> calculateRelevanceScore(cfg, records[i].content,
                                           norm.searchTerms, 0, 0)
                   + candidates[i].score,
         data |-> [content |-> records[i].content,
                   metadata |-> IF Truthy(records[i], "metadata")
                                THEN JSONparse(records[i].metadata) ELSE {}]]
      scored == Array([i \in 1..Len(candidates) |->
                         IF i \in existing THEN Entry(i) ELSE candidates[i]])
  IN  IF ~norm.isValid \/ candidates = <<>>
      THEN [error |-> "none", response |-> createEmptyResponse(query)]
      ELSE IF broken # {} \/ processSearchResultsThrows(cfg, norm.searchTerms, scored)
           THEN [error |-> "SyntaxError", response |-> createEmptyResponse(query)]
           ELSE [error |-> "none",
                 response |-> processSearchResults(cfg, query, scored)]

\* the last loop of performSearch over the replies of the HGETALL pipeline,
\* and processSearchResults
scoreCandidates(cfg, query, candidates, records) ==
  LET norm == normalizeSearchQuery(query)
      existing == {i \in 1..Len(candidates) : Truthy(records[i], "content")}
      broken == {i \in existing : /\ Truthy(records[i], "metadata")
                                  /\ ~JSONparses(records[i].metadata)}
      Entry(i) ==
        [id |-> candidates[i].id,
         score |-> calculateRelevanceScore(cfg, records[i].content,
                                           norm.searchTerms, 0, 0)
                   + candidates[i].score,
         data |-> [content |-> records[i].content,
                   metadata |-> IF Truthy(records[i], "metadata")
                                THEN JSONparse(records[i].metadata) ELSE {}]]
      scored == Array([i \in 1..Len(candidates) |->
                         IF i \in existing THEN Entry(i) ELSE candidates[i]])
  IN  IF ~norm.isValid \/ candidates = <<>>
      THEN [error |-> "none", response |-> createEmptyResponse(query)]
      ELSE IF broken # {} \/ processSearchResultsThrows(cfg, norm.searchTerms,
                                                        SubseqAt(scored, existing))
           THEN [error |-> "SyntaxError", response |-> createEmptyResponse(query)]
           ELSE [error |-> "none",
                 response |-> processSearchResults(cfg, query,
                                                   SubseqAt(scored, existing))]

\* the pipeline removeDocument builds from the record it has read
RemoveCommandsFor(doc, id) ==
  LET docKey == getKey("doc", id)
      terms == JSONparse(doc.terms)
  IN  IF Truthy(doc, "terms")
      THEN Flatten(Array([t \in 1..Len(terms) |->
                            <<Command("SREM", getKey("ngram", terms[t]), id),
                              Command("SREM", getKey("edgegram", terms[t]), id)>>]))
           \o <<Command("DEL", docKey, <<>>),
                Command("SREM", getKey("docs", "all"), id)>>
      ELSE <<Command("DEL", docKey, <<>>),
             Command("SREM", getKey("docs", "all"), id)>>

SearchInFlight == racing.search \in {"grams", "docs"}
RemoveInFlight == racing.remove = "pipeline"

RaceStep ==
  UNCHANGED <<searchConfig, maxDocuments, memoryVars, lastCall, documentScores,
              response, scenario, paging, thrown, analyzed, issued, pending,
              stream, searchIndex, limiter, boosted,
              laterVars>>

\* the search goes on as r; its outcome is known when it is done
SearchGoesOn(r) ==
  /\ racing' = r
  /\ redisResponse' = IF r.search = "done"
                      THEN scoreCandidates(searchConfig, r.query, r.candidates,
                                           r.records)
                      ELSE NoRedisResponse

\* indexDocument, with no other call in flight
RaceIndexDocument(id, doc) ==
  /\ ~SearchInFlight /\ ~RemoveInFlight
  /\ redis' = redisIndexDocument(redis, searchConfig, id, doc.content, doc.metadata)
  /\ racing' = NoRace
  /\ redisResponse' = NoRedisResponse
  /\ RaceStep

\* search(query) up to its first await; one search between two calls of
\* indexDocument
RaceStartSearch(query, order) ==
  /\ racing.search = "idle"
  /\ LET started == [racing EXCEPT
                       !.search = "grams", !.query = query, !.order = order,
                       !.hits = <<>>, !.candidates = <<>>, !.records = <<>>,
                       !.startStore = redis,
                       !.overlapped = IF RemoveInFlight THEN {racing.id} ELSE {}]
     IN  IF normalizeSearchQuery(query).isValid
         THEN SearchGoesOn(AfterReply(LoadTerm(started, searchConfig, 1), searchConfig))
         ELSE SearchGoesOn([started EXCEPT !.search = "done", !.term = 0,
                              !.ngramLeft = <<>>, !.edgegramLeft = <<>>,
                              !.ngramResults = <<>>, !.edgegramResults = <<>>])
  /\ redis' = redis
  /\ RaceStep

\* the store answers the next SMEMBERS of the n-gram pipeline
RaceReadNgram ==
  /\ racing.search = "grams" /\ racing.ngramLeft # <<>>
  /\ SearchGoesOn(AfterReply(
       [racing EXCEPT
          !.ngramLeft = Tail(@),
          !.ngramResults = @ \o SetHits(redis, "ngram", <<Head(racing.ngramLeft)>>,
                                        racing.order, <<searchConfig.ngramWeight>>)],
       searchConfig))
  /\ redis' = redis
  /\ RaceStep

\* the store answers the next SMEMBERS of the edge-gram pipeline
RaceReadEdgegram ==
  /\ racing.search = "grams" /\ racing.edgegramLeft # <<>>
  /\ SearchGoesOn(AfterReply(
       [racing EXCEPT
          !.edgegramLeft = Tail(@),
          !.edgegramResults =
             @ \o SetHits(redis, "edgegram", <<Head(racing.edgegramLeft)>>,
                          racing.order,
                          <<EdgegramBoost(searchConfig, Head(racing.edgegramLeft))>>)],
       searchConfig))
  /\ redis' = redis
  /\ RaceStep

\* the store answers the next HGETALL of the document pipeline
RaceReadDocument ==
  /\ racing.search = "docs"
  /\ LET next == racing.candidates[Len(racing.records) + 1].id
     IN  SearchGoesOn(AfterReply(
           [racing EXCEPT !.records = Append(@, HGETALL(redis, getKey("doc", next)))],
           searchConfig))
  /\ redis' = redis
  /\ RaceStep

\* removeDocument(id) up to its pipeline: the record is read; one
\* removeDocument between two calls of indexDocument
RaceStartRemove(id) ==
  /\ racing.remove = "idle"
  /\ ~TakesFallback(redis, id)
  /\ racing' = [racing EXCEPT
                  !.remove = "pipeline", !.id = id,
                  !.commands = RemoveCommandsFor(HGETALL(redis, getKey("doc", id)), id),
                  !.overlapped = IF SearchInFlight THEN @ \cup {id} ELSE @]
  /\ UNCHANGED <<redis, redisResponse>>
  /\ RaceStep

\* the store executes the next command of the pipeline of removeDocument
RaceRemoveCommand ==
  /\ RemoveInFlight
  /\ redis' = Execute(redis, Head(racing.commands))
  /\ racing' = [racing EXCEPT
                  !.commands = Tail(@),
                  !.remove = IF Tail(racing.commands) = <<>> THEN "done" ELSE @]
  /\ UNCHANGED redisResponse
  /\ RaceStep

RaceNext ==
  \/ \E id \in RaceIds, doc \in RaceInputs : RaceIndexDocument(id, doc)
  \/ \E query \in RaceQueries, order \in Orders(RaceIds) : RaceStartSearch(query, order)
  \/ RaceReadNgram
  \/ RaceReadEdgegram
  \/ RaceReadDocument
  \/ \E id \in RaceIds : RaceStartRemove(id)
  \/ RaceRemoveCommand

RaceSpec == BothInit /\ [][RaceNext]_vars

\* --- removeDocument on a store that holds records of earlier versions ---

\* the pipeline of an indexDocument that keeps no terms list in the record
LegacyIndexCommands(cfg, id, content, metadata) ==
  LET commands == IndexCommands(cfg, id, content, metadata)
      docData == commands[1].arg
  IN  [commands EXCEPT
         ![1].arg = [f \in (DOMAIN docData) \ {"terms"} |-> docData[f]]]

\* a record and its postings written before the terms were tracked
LegacyRecordWritten(id, doc) ==
  /\ ~KeyExists(redis, getKey("doc", id))
  /\ StoreEvent(pipeline(redis, LegacyIndexCommands(searchConfig, id, doc.content,
                                                    doc.metadata)))

\* the terms field of a record is overwritten with text that does not parse
TermsCorrupted(id) ==
  /\ Truthy(HGETALL(redis, getKey("doc", id)), "terms")
  /\ JSONparses(HGETALL(redis, getKey("doc", id)).terms)
  /\ StoreEvent(Execute(redis, Command("HSET", getKey("doc", id),
                                       [terms |-> NotJSON])))

MigrationNext ==
  \/ \E id \in BothIds, doc \in StoreInputs : BothIndexDocument(id, doc)
  \/ \E id \in BothIds : BothRemoveDocument(id)
  \/ \E id \in BothIds, doc \in StoreInputs : LegacyRecordWritten(id, doc)
  \/ \E id \in BothIds : TermsCorrupted(id)

MigrationSpec == BothInit /\ [][MigrationNext]_vars

\* --- generateHighlights on its own ---

CatHatCat == <<"C","a","t"," ","h","a","t"," ","c","a","t">>

SnippetContents == {Cat, CatCat, CatHat, CatHatCat, Concat}

\* the query texts whose normalized terms are highlighted
SnippetQueryTexts ==
  {Cat, <<"a","t">>, CatHat, <<"h","a","t"," ","c","a","t">>,
   <<"d","o","g"," ","a","t">>}

\* a context shorter than the contents, and the default
ContextLengths == {1, DefaultContextLength}

SnippetStep ==
  UNCHANGED <<searchConfig, maxDocuments, memoryVars, redisVars, lastCall,
              documentScores, response, scenario, paging, thrown, analyzed,
              stream, searchIndex, limiter, boosted, racing, sessions,
              reindexing, client, server>>

SnippetInit ==
  /\ Adapters
  /\ analyzed = NoAnalysis
  /\ lastCall = NoCall
  /\ documentScores = <<>>
  /\ maxDocuments = DefaultMaxDocuments
  /\ stream = NoStream
  /\ searchIndex = NewSearchIndex(<<>>)
  /\ limiter = NewLimiter(DefaultMaxMessages, DefaultTimeWindowMs)
  /\ boosted = NoBoost
  /\ racing = NoRace
  /\ sessions = NoSessions
  /\ reindexing = NoReindex
  /\ client = NoClient
  /\ server = NoServer
  /\ \E content \in SnippetContents, text \in SnippetQueryTexts,
        maxHighlights \in 0..DefaultMaxHighlights,
        contextLength \in ContextLengths :
       highlighted = [NoHighlights EXCEPT
                        !.content = content,
                        !.searchTerms =
                          normalizeSearchQuery(Query(text, 0, 0, {})).searchTerms,
                        !.maxHighlights = maxHighlights,
                        !.contextLength = contextLength]

GenerateHighlights ==
  /\ ~highlighted.applied
  /\ highlighted' = [highlighted EXCEPT
                       !.applied = TRUE,
                       !.highlights = generateHighlights(highlighted.content,
                                        highlighted.searchTerms,
                                        highlighted.maxHighlights,
                                        highlighted.contextLength)]
  /\ SnippetStep

SnippetSpec == SnippetInit /\ [][GenerateHighlights]_vars

\* --- the MemoryAdapter constructed with a searchConfig of its own ---

\* the values of config.searchConfig.minScore: absent (the default) and 2
MinScores == {DEFAULT_SEARCH_CONFIG.minScore, 2 * Scale}

ConfiguredInit ==
  /\ \E minScore \in MinScores :
       searchConfig = [DEFAULT_SEARCH_CONFIG EXCEPT !.minScore = minScore]
  /\ maxDocuments = DefaultMaxDocuments
  /\ documents = EmptyMemory.documents
  /\ documentAccessOrder = EmptyMemory.documentAccessOrder
  /\ ngramIndex = EmptyMemory.ngramIndex
  /\ edgegramIndex = EmptyMemory.edgegramIndex
  /\ accessCounter = EmptyMemory.accessCounter
  /\ response = NoResponse
  /\ scenario = "start"
  /\ paging = NoPaging
  /\ redis = EmptyStore
  /\ redisResponse = NoRedisResponse
  /\ issued = {}
  /\ thrown = "none"
  /\ pending = NoPending
  /\ Others
  /\ analyzed = NoAnalysis
  /\ lastCall = NoCall
  /\ documentScores = <<>>

ConfiguredNext ==
  \/ \E id \in BothIds, doc \in DocumentInputs : MemoryIndexDocument(id, doc)
  \/ \E id \in BothIds : MemoryRemoveDocument(id)
  \/ \E query \in Queries : MemorySearch(query)

ConfiguredSpec == ConfiguredInit /\ [][ConfiguredNext]_vars

\* --- the session records of the MemoryAdapter and of the UnifiedRedisAdapter ---

SessionIds == {"s1", "s2"}
MaxSessionClock == 2

\* sessionCleanupInterval, in ticks of the clock
SessionCleanupTicks == 1

\* a function without the key id, and with id set to value
Without(f, id) == [k \in (DOMAIN f) \ {id} |-> f[k]]
With(f, id, value) == [k \in (DOMAIN f) \cup {id} |-> IF k = id THEN value ELSE f[k]]

\* HSET key field value ...: the hash is created when the key does not exist
HashSet(keys, id, fields) ==
  With(keys, id, IF id \in DOMAIN keys THEN fields @@ keys[id] ELSE fields)

memorySetSession(s, id) ==
  [s EXCEPT !.memory = With(@, id, [id |-> id, connectedAt |-> s.now,
                                    lastSeenAt |-> s.now])]

redisSetSession(s, id) ==
  [s EXCEPT !.keys = HashSet(@, id, [id |-> id, connectedAt |-> s.now,
                                     lastSeenAt |-> s.now]),
            !.active = @ \cup {id}]

\* getSession returns a session and not null
memoryGetSession(s, id) == id \in DOMAIN s.memory

redisGetSession(s, id) ==
  /\ id \in DOMAIN s.keys
  /\ "id" \in DOMAIN s.keys[id]

memoryDeleteSession(s, id) == [s EXCEPT !.memory = Without(@, id)]

redisDeleteSession(s, id) ==
  [s EXCEPT !.keys = Without(@, id), !.active = @ \ {id}]

\* getAllSessions: the ids of the sessions returned
memoryGetAllSessions(s) == DOMAIN s.memory

redisListed(s) == {id \in s.active : redisGetSession(s, id)}

\* getAllSessions of the UnifiedRedisAdapter takes the ids it finds no
\* session for out of sessions:active
redisGetAllSessions(s) == [s EXCEPT !.active = redisListed(s)]

memoryUpdateLastSeen(s, id) ==
  IF id \in DOMAIN s.memory
  THEN [s EXCEPT !.memory[id].lastSeenAt = s.now]
  ELSE s

redisUpdateLastSeen(s, id) ==
  [s EXCEPT !.keys = HashSet(@, id, [lastSeenAt |-> s.now])]

\* MemoryAdapter.cleanup: the sessions last seen before the cutoff are deleted
memoryCleanup(s) ==
  [s EXCEPT !.memory =
     [id \in {id \in DOMAIN s.memory :
                ~(s.memory[id].lastSeenAt < s.now - SessionCleanupTicks)} |->
        s.memory[id]]]

\* cleanup that asks getSession instead of EXISTS
redisCleanup_BySession(s) == [s EXCEPT !.active = redisListed(s)]

\* UnifiedRedisAdapter.cleanup: SREM for every member without a session key
redisCleanup(s) == [s EXCEPT !.active = {id \in @ : id \in DOMAIN s.keys}]

SessionStep ==
  UNCHANGED <<searchConfig, maxDocuments, memoryVars, redisVars, lastCall,
              documentScores, response, scenario, paging, thrown, analyzed,
              stream, searchIndex, limiter, boosted, racing, highlighted,
              reindexing, client, server>>

SessionInit ==
  /\ Adapters
  /\ analyzed = NoAnalysis
  /\ lastCall = NoCall
  /\ documentScores = <<>>
  /\ maxDocuments = DefaultMaxDocuments
  /\ stream = NoStream
  /\ searchIndex = NewSearchIndex(<<>>)
  /\ limiter = NewLimiter(DefaultMaxMessages, DefaultTimeWindowMs)
  /\ boosted = NoBoost
  /\ racing = NoRace
  /\ Later

\* the sessions s after the call op(id), with the call recorded
Called(s, op, id) ==
  [s EXCEPT !.call = [NoSessionCall EXCEPT !.op = op, !.id = id,
                                           !.before = sessions.active]]

SetSession(id) ==
  /\ sessions' = Called(redisSetSession(memorySetSession(sessions, id), id),
                        "setSession", id)
  /\ SessionStep

GetSession(id) ==
  /\ sessions' = [sessions EXCEPT
                    !.call = [NoSessionCall EXCEPT
                                !.op = "getSession", !.id = id,
                                !.before = sessions.active,
                                !.memoryFound = memoryGetSession(sessions, id),
                                !.redisFound = redisGetSession(sessions, id)]]
  /\ SessionStep

DeleteSession(id) ==
  /\ sessions' = Called(redisDeleteSession(memoryDeleteSession(sessions, id), id),
                        "deleteSession", id)
  /\ SessionStep

GetAllSessions ==
  /\ sessions' = [redisGetAllSessions(sessions) EXCEPT
                    !.call = [NoSessionCall EXCEPT
                                !.op = "getAllSessions",
                                !.before = sessions.active,
                                !.memoryListed = memoryGetAllSessions(sessions),
                                !.redisListed = redisListed(sessions)]]
  /\ SessionStep

UpdateLastSeen(id) ==
  /\ sessions' = Called(redisUpdateLastSeen(memoryUpdateLastSeen(sessions, id), id),
                        "updateLastSeen", id)
  /\ SessionStep

SessionCleanup ==
  /\ sessions' = Called(redisCleanup(memoryCleanup(sessions)), "cleanup", "")
  /\ SessionStep

\* the time to live ttl.session of a session key runs out
SessionKeyExpires(id) ==
  /\ id \in DOMAIN sessions.keys
  /\ sessions' = Called([sessions EXCEPT !.keys = Without(@, id)], "expire", id)
  /\ SessionStep

ClockTicks ==
  /\ sessions.now < MaxSessionClock
  /\ sessions' = Called([sessions EXCEPT !.now = @ + 1], "tick", "")
  /\ SessionStep

SessionNext ==
  \/ \E id \in SessionIds : SetSession(id)
  \/ \E id \in SessionIds : GetSession(id)
  \/ \E id \in SessionIds : DeleteSession(id)
  \/ GetAllSessions
  \/ \E id \in SessionIds : UpdateLastSeen(id)
  \/ SessionCleanup
  \/ \E id \in SessionIds : SessionKeyExpires(id)
  \/ ClockTicks

SessionSpec == SessionInit /\ [][SessionNext]_vars

\* --- two indexDocument calls of the UnifiedRedisAdapter for one id ---
\* Each call takes three turns at the store, one per await: the HGETALL of
\* removeDocument, the pipeline of removeDocument, the pipeline of
\* indexDocument.

ReindexId == "a"

ReindexContents == {Cat, CatHat, Dog}

Callers == {1, 2}

InFlight2(c) == reindexing.calls[c].stage \in {"read", "removed"}

ReindexStep ==
  UNCHANGED <<searchConfig, maxDocuments, memoryVars, redisResponse, issued, pending,
              lastCall, documentScores, response, scenario, paging, thrown,
              analyzed, stream, searchIndex, limiter, boosted, racing,
              highlighted, sessions, client, server>>

\* indexDocument(id, content) up to the first await of removeDocument
ReindexStart(c, content) ==
  /\ reindexing.calls[c].stage \in {"idle", "done"}
  /\ ~TakesFallback(redis, ReindexId)
  /\ reindexing' =
       [reindexing EXCEPT
          !.calls[c] = [stage |-> "read", content |-> content,
                        doc |-> HGETALL(redis, getKey("doc", ReindexId))],
          !.overlapped = @ \/ \E other \in Callers \ {c} : InFlight2(other)]
  /\ redis' = redis
  /\ ReindexStep

\* await this.redis.pipeline(commands) of removeDocument
ReindexRemove(c) ==
  /\ reindexing.calls[c].stage = "read"
  /\ redis' = pipeline(redis, RemoveCommandsFor(reindexing.calls[c].doc, ReindexId))
  /\ reindexing' = [reindexing EXCEPT !.calls[c].stage = "removed"]
  /\ ReindexStep

\* await this.redis.pipeline(commands) of indexDocument
ReindexWrite(c) ==
  /\ reindexing.calls[c].stage = "removed"
  /\ redis' = pipeline(redis, IndexCommands(searchConfig, ReindexId,
                                            reindexing.calls[c].content, {}))
  /\ reindexing' = [reindexing EXCEPT !.calls[c].stage = "done"]
  /\ ReindexStep

ReindexNext ==
  \/ \E c \in Callers, content \in ReindexContents : ReindexStart(c, content)
  \/ \E c \in Callers : ReindexRemove(c)
  \/ \E c \in Callers : ReindexWrite(c)

ReindexSpec == BothInit /\ [][ReindexNext]_vars

\* --- PlugNPlayClient.search against the 'search' handler of the server ---

ClientQueries == {"cat", "dog"}

Searchers == {1, 2}

\* 'search' events and answers that may be under way at once
MaxInFlight == 2

ClientStep ==
  UNCHANGED <<searchConfig, maxDocuments, memoryVars, redis, redisResponse, issued,
              pending, lastCall, documentScores, response, scenario, paging, thrown,
              analyzed, stream, searchIndex, limiter, boosted, racing,
              highlighted, sessions, reindexing, server>>

\* the sequence without its i-th element
DropAt(xs, i) == SubSeq(xs, 1, i - 1) \o SubSeq(xs, i + 1, Len(xs))

\* the answer of the server to a query: socket.emit('search-result', results)
\* or socket.emit('error', ...)
SearchResultFor(query) == [event |-> "search-result", query |-> query]

ErrorFor(query) == [event |-> "error", query |-> query]

\* what a listener of call c resolves its promise with
ResolvedWith(c, answer) ==
  IF answer.event = "search-result" THEN answer.query ELSE "null"

\* socket.emit on the client side of an incoming event: every listener
\* registered when the event arrives is called with it, and a once-listener
\* is removed
Dispatch(cl, answer) ==
  [cl EXCEPT
     !.calls = [c \in Searchers |->
                  IF c \in cl.listeners
                  THEN [cl.calls[c] EXCEPT !.state = "resolved",
                                           !.result = ResolvedWith(c, answer)]
                  ELSE cl.calls[c]],
     !.listeners = {}]

\* search(query) on a connected client with a valid query
ClientSearch(c, query) ==
  /\ client.calls[c].state \in {"idle", "resolved"}
  /\ Len(client.requests) + Len(client.responses) < MaxInFlight
  /\ client' = [client EXCEPT
                  !.calls[c] = [state |-> "waiting", query |-> query, result |-> "null"],
                  !.listeners = @ \cup {c},
                  !.requests = Append(@, query)]
  /\ ClientStep

\* socket.on('search') of the server: an awaited search completes and its
\* answer is emitted; searches that run at once complete in either order
ServerAnswers(i, fails) ==
  /\ i \in 1..Len(client.requests)
  /\ client' = [client EXCEPT
                  !.requests = DropAt(@, i),
                  !.responses = Append(@, IF fails THEN ErrorFor(client.requests[i])
                                          ELSE SearchResultFor(client.requests[i]))]
  /\ ClientStep

\* an event of the server arrives at the socket of the client
ClientReceives ==
  /\ client.responses # <<>>
  /\ client' = [Dispatch(client, Head(client.responses)) EXCEPT
                  !.responses = Tail(client.responses)]
  /\ ClientStep

\* the searchTimeout timer of call c fires
SearchTimesOut(c) ==
  /\ client.calls[c].state = "waiting"
  /\ client' = [client EXCEPT !.calls[c].state = "resolved",
                              !.calls[c].result = "null",
                              !.listeners = @ \ {c}]
  /\ ClientStep

ClientNext ==
  \/ \E c \in Searchers, query \in ClientQueries : ClientSearch(c, query)
  \/ \E i \in 1..MaxInFlight, fails \in BOOLEAN : ServerAnswers(i, fails)
  \/ ClientReceives
  \/ \E c \in Searchers : SearchTimesOut(c)

ClientSpec == BothInit /\ [][ClientNext]_vars

\* --- PlugNPlayServer: the ways a session is disconnected ---

ServerStep ==
  UNCHANGED <<searchConfig, maxDocuments, memoryVars, redis, redisResponse, issued,
              pending, lastCall, documentScores, response, scenario, paging, thrown,
              analyzed, stream, searchIndex, limiter, boosted, racing,
              highlighted, sessions, reindexing, client>>

\* handleDisconnection up to its await of deleteSession
StartsDisconnection(socket) == [socket EXCEPT !.active = FALSE]

\* handleDisconnection after its await: the session is deleted, 'disconnect'
\* is emitted
EndsDisconnection(socket) ==
  [socket EXCEPT !.stored = FALSE, !.deleted = @ + 1, !.emitted = @ + 1]

\* socket.disconnect(true): an open socket closes and its 'disconnect'
\* listener calls handleDisconnection; a closed socket is left alone
SocketDisconnect(socket) ==
  IF socket.state = "open"
  THEN [StartsDisconnection(socket) EXCEPT !.state = "closed", !.listening = @ + 1]
  ELSE socket

\* disconnectSocket up to the await of handleDisconnection
StartsDisconnectSocket(socket) ==
  [StartsDisconnection(socket) EXCEPT !.forced = "deleting"]

\* handleConnection
HandleConnection(s) ==
  /\ ~server.isShuttingDown
  /\ server.sockets[s].state = "new"
  /\ server' = [server EXCEPT !.sockets[s] =
                  [@ EXCEPT !.state = "open", !.active = TRUE, !.stored = TRUE]]
  /\ ServerStep

\* the client closes the connection: the 'disconnect' listener runs
ClientDisconnects(s) ==
  /\ server.sockets[s].state = "open"
  /\ server' = [server EXCEPT !.sockets[s] = SocketDisconnect(@)]
  /\ ServerStep

\* disconnectSession(sessionId) for a session whose socket is in activeSockets
DisconnectSession(s) ==
  /\ server.sockets[s].active
  /\ server' = [server EXCEPT !.sockets[s] = StartsDisconnectSocket(@)]
  /\ ServerStep

\* close() up to its await: disconnectSocket is called for every active socket
Close ==
  /\ ~server.isShuttingDown
  /\ server' = [sockets |-> [s \in ServerSockets |->
                               IF server.sockets[s].active
                               THEN StartsDisconnectSocket(server.sockets[s])
                               ELSE server.sockets[s]],
                isShuttingDown |-> TRUE]
  /\ ServerStep

\* the deleteSession awaited by the 'disconnect' listener completes
ListenerContinues(s) ==
  /\ server.sockets[s].listening > 0
  /\ server' = [server EXCEPT !.sockets[s] =
                  [EndsDisconnection(@) EXCEPT !.listening = @ - 1]]
  /\ ServerStep

\* the deleteSession awaited by disconnectSocket completes, then
\* socket.disconnect(true)
DisconnectSocketContinues(s) ==
  /\ server.sockets[s].forced = "deleting"
  /\ server' = [server EXCEPT !.sockets[s] =
                  [SocketDisconnect(EndsDisconnection(@)) EXCEPT !.forced = "done"]]
  /\ ServerStep

ServerNext ==
  \/ \E s \in ServerSockets : HandleConnection(s)
  \/ \E s \in ServerSockets : ClientDisconnects(s)
  \/ \E s \in ServerSockets : DisconnectSession(s)
  \/ Close
  \/ \E s \in ServerSockets : ListenerContinues(s)
  \/ \E s \in ServerSockets : DisconnectSocketContinues(s)

ServerSpec == BothInit /\ [][ServerNext]_vars

\* --- the MemoryAdapter with a small capacity, disconnected now and then ---

LruInputs ==
  {[content |-> Cat, metadata |-> {}],
   [content |-> CatHat, metadata |-> {}]}

LruQueries ==
  {Query(<<"H","A","T">>, 0, 0, {}),
   Query(<<"c","a","t">>, 0, 0, {})}

LruInit ==
  /\ Constructed
  /\ maxDocuments \in Capacities

\* MemoryAdapter.disconnect()
MemoryDisconnect ==
  /\ SetMemory(disconnect(Memory))
  /\ sessions' = [sessions EXCEPT !.memory = <<>>]
  /\ lastCall' = [NoCall EXCEPT !.op = "disconnect"]
  /\ documentScores' = <<>>
  /\ response' = NoResponse
  /\ thrown' = "none"
  /\ scenario' = "off"
  /\ paging' = NoPaging
  /\ UNCHANGED <<searchConfig, maxDocuments, redisVars, analyzed, stream,
                 searchIndex, limiter, boosted, racing, highlighted, reindexing,
                 client, server>>

LruNext ==
  \/ \E id \in DocIds, doc \in LruInputs : MemoryIndexDocument(id, doc)
  \/ \E id \in DocIds : MemoryRemoveDocument(id)
  \/ \E query \in LruQueries : MemorySearch(query)
  \/ MemoryDisconnect

LruSpec == LruInit /\ [][LruNext]_vars

\* --- processSearchResults on its own ---

PageInit ==
  /\ Adapters
  /\ Others
  /\ analyzed = NoAnalysis
  /\ maxDocuments = DefaultMaxDocuments
  /\ \E query \in PageQueries, candidates \in CandidateMaps :
       /\ lastCall = [NoCall EXCEPT !.query = query]
       /\ documentScores = candidates

ProcessSearchResults ==
  /\ lastCall.op = "none"
  /\ response' = processSearchResults(searchConfig, lastCall.query, documentScores)
  /\ lastCall' = [lastCall EXCEPT !.op = "processSearchResults"]
  /\ UNCHANGED <<fixedVars, memoryVars, documentScores, scenario, paging,
                 redisVars, thrown>>

PageSpec == PageInit /\ [][ProcessSearchResults]_vars

\* ------------------------------------------------------------------------
\* Properties
\* ------------------------------------------------------------------------

StoredIds == DOMAIN documents

\* the grams under which id is posted in an index of the MemoryAdapter
PostedUnder(index, id) == {g \in DOMAIN index : id \in Range(index[g])}

NGramsOf(content) == Range(buildNGrams(content, searchConfig.ngramSize))

EdgeGramsOf(content) ==
  Range(buildEdgeGrams(content, searchConfig.minEdgegram, searchConfig.maxEdgegram))

\* the grams under which id is posted in the store
PostedInStore(type, id) ==
  {k.id : k \in {k \in KEYS(redis, type) : id \in SMEMBERS(redis, k)}}

ResultIds(resp) == {resp.results[i].id : i \in 1..Len(resp.results)}

\* C1: in the MemoryAdapter an id is in the posting set of an n-gram exactly
\* when the id is stored and the n-gram is one of buildNGrams of its content,
\* and likewise for the edge-gram index and buildEdgeGrams
C1_PostingsMatchDocuments ==
  \A id \in DocIds :
    /\ PostedUnder(ngramIndex, id) =
         (IF id \in StoredIds THEN NGramsOf(documents[id].content) ELSE {})
    /\ PostedUnder(edgegramIndex, id) =
         (IF id \in StoredIds THEN EdgeGramsOf(documents[id].content) ELSE {})

\* a document has just been evicted while another one stays posted
C1_Witness ==
  /\ lastCall.op = "indexDocument"
  /\ lastCall.evicted # {}
  /\ Cardinality(StoredIds) = 2
  /\ \E g \in DOMAIN ngramIndex : Len(ngramIndex[g]) = 2

\* the queries none of whose grams is a gram of the content
ForeignQueries(content) ==
  {q \in Queries :
     \A t \in Range(normalizeSearchQuery(q).searchTerms) :
       /\ NGramsOf(t) \cap NGramsOf(content) = {}
       /\ EdgeGramsOf(t) \cap EdgeGramsOf(content) = {}}

GoneFromStore(id) ==
  /\ ~KeyExists(redis, getKey("doc", id))
  /\ id \notin SMEMBERS(redis, getKey("docs", "all"))
  /\ PostedInStore("ngram", id) = {}
  /\ PostedInStore("edgegram", id) = {}

OldestAccessed ==
  CHOOSE id \in StoredIds :
    \A i, j \in 1..Len(documentAccessOrder) :
      documentAccessOrder[i].id = id => documentAccessOrder[i].tick <= documentAccessOrder[j].tick

Responses == {response, redisResponse.response}

\* the stored documents whose metadata has every pair of the filters
Satisfying(filters) == {id \in StoredIds : filters \subseteq documents[id].metadata}

\* C5: every result of a search satisfies all filters of the query, in both
\* adapters, and the documents that fail a filter are not counted in total
C5_ResultsSatisfyFilters ==
  lastCall.op = "search" =>
    \A resp \in Responses :
      /\ \A i \in 1..Len(resp.results) :
           lastCall.query.filters \subseteq resp.results[i].data.metadata
      /\ resp.total <= Cardinality(Satisfying(lastCall.query.filters))

\* the number of candidates whose final score is not below minScore
Qualifying ==
  Cardinality({i \in 1..Len(documentScores) :
                 documentScores[i].score >= searchConfig.minScore})

\* C6: for N candidates with a final score of at least minScore, a limit
\* L > 0 and an offset O >= 0, processSearchResults returns total = N,
\* min(L, max(0, N - O)) results and hasMore = (O + L < N)
C6_PaginationLaw ==
  lastCall.op = "processSearchResults" /\ lastCall.query.limit > 0 =>
    LET L == lastCall.query.limit
        O == lastCall.query.offset
        N == Qualifying
    IN  /\ response.total = N
        /\ Len(response.results) = Min(L, Max(0, N - O))
        /\ response.hasMore = (O + L < N)

\* a page that starts behind the first result and ends with the last one,
\* cut from a Map that also holds a candidate below minScore
C6_Witness ==
  /\ lastCall.op = "processSearchResults"
  /\ lastCall.query.limit > 0
  /\ lastCall.query.offset > 0
  /\ lastCall.query.offset + lastCall.query.limit = Qualifying
  /\ Qualifying < Len(documentScores)
  /\ Len(response.results) > 0

\* C7: the pages of one query at the offsets 0, L, 2L, ... of the
\* MemoryAdapter, concatenated until hasMore is false, are the ranked list
\* one search with a limit of at least total returns
C7_PagesConcatenate ==
  paging.active /\ paging.done => paging.pages = paging.full

\* two pages of one result each, the two results with equal scores
C7_Witness ==
  /\ paging.active
  /\ paging.done
  /\ paging.query.limit = 1
  /\ Len(paging.pages) = 2
  /\ paging.pages[1].score = paging.pages[2].score

\* a query of whitespace only
IsBlank(text) == \A i \in 1..Len(text) : text[i] = " "

EmptyResponseTo(query) ==
  [query |-> query.query, results |-> <<>>, total |-> 0, hasMore |-> FALSE]

\* C8: a search with an empty or whitespace-only query returns no results,
\* total 0 and hasMore false from both adapters without an error, sends no
\* command to the store and leaves the MemoryAdapter with its LRU ticks as it was
C8_EmptyQueryContract ==
  [][lastCall'.op = "search" /\ IsBlank(lastCall'.query.query)
       => /\ response' = EmptyResponseTo(lastCall'.query)
          /\ redisResponse' = [error |-> "none",
                               response |-> EmptyResponseTo(lastCall'.query)]
          /\ issued' = {}
          /\ UNCHANGED <<redis, memoryVars>>]_vars

\* a whitespace-only query has been answered while documents are stored
C8_Witness ==
  /\ lastCall.op = "search"
  /\ IsBlank(lastCall.query.query)
  /\ lastCall.query.query # <<>>
  /\ StoredIds # {}
  /\ KEYS(redis, "ngram") # {}

ScenarioDocuments ==
  [id \in {"a", "b"} |->
     [content |-> IF id = "a" THEN TypeScriptIsAmazing ELSE WebSocketsEnable,
      metadata |-> {}]]

\* C9: with the default configuration and a = "TypeScript is amazing",
\* b = "WebSockets enable real-time communication" indexed, the search for
\* "typescript" returns exactly one result, a, with a positive score, and the
\* search for "real time" returns b first
C9_EndToEnd ==
  documents = ScenarioDocuments /\ lastCall.op = "search" =>
    /\ lastCall.query.query = <<"t","y","p","e","s","c","r","i","p","t">> =>
         /\ Len(response.results) = 1
         /\ response.results[1].id = "a"
         /\ response.results[1].score > 0
    /\ lastCall.query.query = <<"r","e","a","l"," ","t","i","m","e">> =>
         /\ Len(response.results) >= 1
         /\ response.results[1].id = "b"

\* both documents are indexed and "real time" has been searched for
C9_Witness ==
  /\ documents = ScenarioDocuments
  /\ lastCall.op = "search"
  /\ lastCall.query.query = <<"r","e","a","l"," ","t","i","m","e">>
  /\ response.total = 1

\* the ids of a response with their scores
Scored(resp) ==
  {<<resp.results[i].id, resp.results[i].score>> : i \in 1..Len(resp.results)}

\* C10: given the same calls below capacity and the same query, the search of
\* the MemoryAdapter and the search of the UnifiedRedisAdapter return the
\* same ids with the same scores, the same total and the same hasMore
C10_BackendsAgree ==
  lastCall.op = "search" =>
    /\ redisResponse.error = "none"
    /\ Scored(response) = Scored(redisResponse.response)
    /\ response.total = redisResponse.response.total
    /\ response.hasMore = redisResponse.response.hasMore

\* the ids that are posted in the store without a document record
StaleIds ==
  {id \in MemberIds(redis) :
     /\ ~KeyExists(redis, getKey("doc", id))
     /\ PostedInStore("ngram", id) \cup PostedInStore("edgegram", id) # {}}

\* the store with every posting of an id without a record taken out
Scrubbed ==
  LET Kept(type, g) == SMEMBERS(redis, getKey(type, g)) \ StaleIds
      Clean(type) ==
        [g \in {g \in DOMAIN redis[type] : Kept(type, g) # {}} |-> Kept(type, g)]
  IN  [redis EXCEPT !.ngram = Clean("ngram"), !.edgegram = Clean("edgegram")]

\* the records whose metadata field JSON.parse rejects
BrokenRecords ==
  {id \in DOMAIN redis.doc :
     /\ Truthy(redis.doc[id], "metadata")
     /\ ~JSONparses(redis.doc[id].metadata)}

\* C11: when a posting set holds an id without a document record, search
\* raises no error for it, leaves the id out of results and total, and
\* returns the other candidates as if the posting were not there; the
\* MemoryAdapter, given the same calls, returns stored ids only
C11_StalePostingsDropped ==
  /\ \A q \in StoreQueries, order \in Orders(MemberIds(redis)) :
       LET out == performSearch(redis, searchConfig, q, order)
       IN  /\ out = performSearch(Scrubbed, searchConfig, q, order)
           /\ BrokenRecords = {} => out.error = "none"
           /\ out.error = "none" =>
                /\ ResultIds(out.response) \cap StaleIds = {}
                /\ out.response.total =
                     Cardinality({id \in DOMAIN redis.doc :
                        \E i \in 1..Len(out.response.results) :
                          out.response.results[i].id = id})
  /\ lastCall.op = "search" =>
       /\ ResultIds(redisResponse.response) \cap StaleIds = {}
       /\ thrown = "none"
       /\ ResultIds(response) \subseteq StoredIds

\* a search for "cat" has returned a document while another id, whose record
\* has expired, is still posted under "cat"
C11_Witness ==
  /\ lastCall.op = "search"
  /\ lastCall.query.query = Cat
  /\ \E id \in StaleIds : Cat \in PostedInStore("ngram", id)
  /\ redisResponse.error = "none"
  /\ redisResponse.response.total = 1

\* C12: a search of the UnifiedRedisAdapter whose candidate has a metadata
\* field that is not decodable JSON does not fail and returns that document
\* with its content and no metadata
C12_MalformedMetadataTolerated ==
  lastCall.op = "search" =>
    /\ redisResponse.error = "none"
    /\ \A i \in 1..Len(redisResponse.response.results) :
         redisResponse.response.results[i].id \in BrokenRecords =>
           redisResponse.response.results[i].data.metadata = {}

\* C13: a search whose backend has not answered when the timer fires is
\* rejected with 'Search timeout' and is never resolved with an empty
\* response; a search whose backend answers while the timer is still set
\* resolves with the response performSearch computed; once settled, the
\* outcome of a search does not change
C13_SearchTimeout ==
  [][/\ (pending.search = "running" /\ pending.timer = "armed"
         /\ pending'.timer = "fired") =>
          /\ redisResponse'.error = "Search timeout"
          /\ redisResponse'.response = NoResponse
     /\ (pending.search = "running" /\ pending.timer = "armed"
         /\ pending'.search = "answered") =>
          \E order \in Orders(MemberIds(redis)) :
            redisResponse' =
              performSearch(redis, searchConfig, pending.query, order)
     /\ (redisResponse # Unsettled /\ lastCall'.op \in {"answer", "fail", "timer"}) =>
          redisResponse' = redisResponse]_vars

\* the timer of a search for "cat" has fired before the backend answered,
\* with a document stored that the search would have returned
C13_Witness ==
  /\ pending.search = "running"
  /\ pending.timer = "fired"
  /\ pending.query.query = Cat
  /\ redisResponse.error = "Search timeout"
  /\ \E order \in Orders(MemberIds(redis)) :
       performSearch(redis, searchConfig, pending.query, order).response.total > 0

\* C14: no search of either adapter raises, whatever the query and the
\* stored contents, regular-expression characters included
C14_SearchNeverRaises ==
  lastCall.op = "search" => (thrown = "none" /\ redisResponse.error = "none")

\* C15: the MemoryAdapter never stores more than maxDocuments documents
C15_CapacityBound == Cardinality(StoredIds) <= maxDocuments

\* C16: indexDocument of an id that is already stored removes no other
\* document
C16_ReindexEvictsNothing ==
  (lastCall.op = "indexDocument" /\ lastCall.replaced) => lastCall.evicted = {}

\* C17: removeDocument of an id that is not stored raises nothing and leaves
\* the documents, the posting sets and the ticks of the MemoryAdapter, and
\* the document records and posting sets of the UnifiedRedisAdapter, as they
\* were
C17_RemoveAbsentIsNoOp ==
  [][lastCall'.op = "removeDocument" =>
       /\ lastCall'.id \notin DOMAIN documents =>
            /\ documents' = documents
            /\ ngramIndex' = ngramIndex
            /\ edgegramIndex' = edgegramIndex
            /\ documentAccessOrder' = documentAccessOrder
            /\ accessCounter' = accessCounter
            /\ thrown' = "none"
       /\ ~KeyExists(redis, getKey("doc", lastCall'.id)) =>
            /\ redis'.doc = redis.doc
            /\ redis'.ngram = redis.ngram
            /\ redis'.edgegram = redis.edgegram]_vars

\* removeDocument was called for an id that neither adapter stores, whose
\* postings are left in the store by an expired record, with another document
\* stored
C17_Witness ==
  /\ lastCall.op = "removeDocument"
  /\ ~lastCall.replaced
  /\ lastCall.id \in StaleIds
  /\ StoredIds # {}

\* the words of the normalized text: the maximal runs of word characters of
\* the text in lower case
WordsOf(text) ==
  LET lower == toLowerCase(text)
      Run(i, j) == \A k \in i..j : IsWordChar(lower[k])
      Maximal(i, j) == /\ (i = 1 \/ ~IsWordChar(lower[i - 1]))
                       /\ (j = Len(lower) \/ ~IsWordChar(lower[j + 1]))
  IN  {SubSeq(lower, i, j) : <<i, j>> \in
         {p \in (1..Len(lower)) \X (1..Len(lower)) :
            p[1] <= p[2] /\ Run(p[1], p[2]) /\ Maximal(p[1], p[2])}}

NoDuplicates(xs) == \A i, j \in 1..Len(xs) : xs[i] = xs[j] => i = j

\* C18: buildNGrams(text, n) returns, each once, exactly the substrings of
\* length n of the words of the normalized text; a word shorter than n gives
\* nothing; "cat" gives [cat], "cats" gives [cat, ats] and "ab" gives [] for
\* n = 3
C18_NGramsExact ==
  analyzed.fn = "buildNGrams" =>
    /\ NoDuplicates(analyzed.grams)
    /\ Range(analyzed.grams) =
         UNION {{SubSeq(w, i, i + analyzed.n - 1) :
                   i \in 1..(Len(w) - analyzed.n + 1)} : w \in WordsOf(analyzed.text)}
    /\ (analyzed.n = 3 /\ analyzed.text = Cat) => analyzed.grams = <<Cat>>
    /\ (analyzed.n = 3 /\ analyzed.text = Cats) =>
         analyzed.grams = <<Cat, <<"a","t","s">> >>
    /\ (analyzed.n = 3 /\ analyzed.text = <<"a","b">>) => analyzed.grams = <<>>

\* buildNGrams was applied to a text of two words, one shorter than n and one
\* of length n
C18_Witness ==
  /\ analyzed.fn = "buildNGrams"
  /\ analyzed.n = 2
  /\ analyzed.text = <<"B","-","a","B">>
  /\ analyzed.grams = << <<"a","b">> >>

\* C19: buildEdgeGrams(text, minGram, maxGram) returns, each once, exactly
\* the prefixes of length L of the words of the normalized text for minGram
\* <= L <= min(maxGram, length of the word), and the empty list when minGram
\* > maxGram
C19_EdgeGramsExact ==
  analyzed.fn = "buildEdgeGrams" =>
    /\ NoDuplicates(analyzed.grams)
    /\ Range(analyzed.grams) =
         UNION {{SubSeq(w, 1, L) :
                   L \in analyzed.minGram..Min(analyzed.maxGram, Len(w))} :
                w \in WordsOf(analyzed.text)}
    /\ analyzed.minGram > analyzed.maxGram => analyzed.grams = <<>>

\* buildEdgeGrams was applied with minGram 1 and maxGram 3 to a text of two
\* words sharing a prefix
C19_Witness ==
  /\ analyzed.fn = "buildEdgeGrams"
  /\ analyzed.minGram = 1
  /\ analyzed.maxGram = 3
  /\ analyzed.text = <<"a"," ","a","B">>
  /\ analyzed.grams = << <<"a">>, <<"a","b">> >>

\* the grams of the term, by index, under which id is posted
MemoryGramHits(term, id) ==
  LET terms == generateSearchTerms(searchConfig, term)
  IN  {<<"ngram", g>> : g \in Range(terms.ngrams) \cap PostedUnder(ngramIndex, id)}
      \cup {<<"edgegram", g>> :
              g \in Range(terms.edgegrams) \cap PostedUnder(edgegramIndex, id)}

StoreGramHits(term, id) ==
  LET terms == generateSearchTerms(searchConfig, term)
  IN  {<<"ngram", g>> : g \in Range(terms.ngrams) \cap PostedInStore("ngram", id)}
      \cup {<<"edgegram", g>> :
              g \in Range(terms.edgegrams) \cap PostedInStore("edgegram", id)}

\* the content holds the term as a word
ExactWord(content, term) ==
  toLowerCase(term) \in Range(SplitWhitespace(toLowerCase(content)))

\* d1 is in the results with a larger score than d2 and in front of it, or d2
\* is not in the results
RankedAbove(resp, d1, d2) ==
  \E i \in 1..Len(resp.results) :
    /\ resp.results[i].id = d1
    /\ \A j \in 1..Len(resp.results) :
         resp.results[j].id = d2 =>
           (i < j /\ resp.results[i].score > resp.results[j].score)

\* C20: after a search for a single term, a stored document whose postings
\* hold strictly more of the grams of the term than those of another stored
\* document, and which holds the term as a word whenever the other does, is
\* ranked strictly above the other, in the MemoryAdapter and in the
\* UnifiedRedisAdapter
C20_ScoreMonotonic ==
  (lastCall.op = "search" /\ Len(normalizeSearchQuery(lastCall.query).searchTerms) = 1) =>
    LET term == normalizeSearchQuery(lastCall.query).searchTerms[1]
        Stronger(d1, d2, content1, content2, hits1, hits2) ==
          /\ hits2 \subseteq hits1
          /\ hits1 # hits2
          /\ ExactWord(content2, term) => ExactWord(content1, term)
    IN  /\ \A d1, d2 \in StoredIds :
             Stronger(d1, d2, documents[d1].content, documents[d2].content,
                      MemoryGramHits(term, d1), MemoryGramHits(term, d2))
               => RankedAbove(response, d1, d2)
        /\ \A d1, d2 \in DOMAIN redis.doc :
             Stronger(d1, d2, redis.doc[d1].content, redis.doc[d2].content,
                      StoreGramHits(term, d1), StoreGramHits(term, d2))
               => RankedAbove(redisResponse.response, d1, d2)

\* a search for "cats" with "cat" indexed as a and "Cats" as b: b, indexed
\* later, is in front of a in both responses
C20_Witness ==
  /\ lastCall.op = "search"
  /\ lastCall.query.query = <<"c","a","t","s">>
  /\ StoredIds = {"a", "b"}
  /\ documents["a"].content = Cat
  /\ documents["b"].content = Cats
  /\ MemoryGramHits(lastCall.query.query, "a") # {}
  /\ response.results[1].id = "b"
  /\ redisResponse.response.results[1].id = "b"

\* C21: a search with streaming for a connected session emits one
\* 'search-stream' chunk per result of the returned page, in rank order, and
\* exactly one chunk, the last one, has isLast = true
C21_StreamEndsWithLast ==
  (lastCall.op = "search" /\ stream.streaming /\ stream.connected /\ thrown = "none") =>
    /\ Len(stream.emitted) = Len(response.results)
    /\ \A i \in 1..Len(stream.emitted) : stream.emitted[i].chunk = response.results[i]
    /\ Cardinality({i \in 1..Len(stream.emitted) : stream.emitted[i].isLast}) = 1
    /\ stream.emitted # <<>> => stream.emitted[Len(stream.emitted)].isLast

\* the windows of three characters of the padded searchable texts of data
NgramsFrom(data) ==
  LET fields == IF searchIndex.searchFields = <<>> THEN DOMAIN data
                ELSE Range(searchIndex.searchFields) \cap DOMAIN data
      Padded(f) == <<"_", "_">> \o toLowerCase(data[f]) \o <<"_", "_">>
  IN  UNION {{SubSeq(Padded(f), i, i + 2) : i \in 1..(Len(Padded(f)) - 2)} : f \in fields}

IndexPostedUnder(id) ==
  {g \in DOMAIN searchIndex.ngramIndex : id \in Range(searchIndex.ngramIndex[g])}

\* the ids any search of the index would return
Findable ==
  UNION {ResultIds([results |-> indexSearch(searchIndex, q, NoFilters, Unset, Unset)]) :
           q \in IndexQueries}

\* C22: in the InMemorySearchIndex an n-gram refers to an id only if the id
\* is stored and the n-gram comes from its current searchable text; after
\* remove(id) no search returns id; after add(id, d2) on a stored id no
\* n-gram that came only from the previous data refers to id
C22_IndexMatchesDocuments ==
  /\ \A id \in IndexIds :
       IndexPostedUnder(id) \subseteq
         (IF id \in DOMAIN searchIndex.documents
          THEN NgramsFrom(searchIndex.documents[id]) ELSE {})
  /\ searchIndex.call.op = "remove" => searchIndex.call.id \notin Findable
  /\ (searchIndex.call.op = "add" /\ searchIndex.prior # <<>>) =>
       IndexPostedUnder(searchIndex.call.id) \cap
         (NgramsFrom(searchIndex.prior)
            \ NgramsFrom(searchIndex.documents[searchIndex.call.id])) = {}
  /\ Findable \subseteq DOMAIN searchIndex.documents

\* "cot" was added under an id that held "cat", with another document stored
C22_Witness ==
  /\ searchIndex.call.op = "add"
  /\ searchIndex.prior # <<>>
  /\ searchIndex.prior.title = Cat
  /\ searchIndex.documents[searchIndex.call.id].title = Cot
  /\ Cardinality(DOMAIN searchIndex.documents) = 2

\* the documents a search for query with filters is to return, and the share
\* of the query windows each is posted under
IndexQualifying(query, filters) ==
  {id \in DOMAIN searchIndex.documents :
     /\ \E g \in Range(generateNgrams(query)) : g \in IndexPostedUnder(id)
     /\ \A k \in DOMAIN filters :
          k \in DOMAIN searchIndex.documents[id]
            /\ searchIndex.documents[id][k] = filters[k]}

IndexScore(query, id) ==
  LET windows == generateNgrams(query)
  IN  (Cardinality({i \in 1..Len(windows) : windows[i] \in IndexPostedUnder(id)})
         * Scale) \div Len(windows)

\* C23: a search of the InMemorySearchIndex with filters returns documents
\* that match the query and hold the filter value under every filter key,
\* each once, in non-increasing order of score, and the page is the part of
\* that ranking from offset on, limit long at most
C23_IndexSearchFilters ==
  searchIndex.call.op = "search" =>
    LET c == searchIndex.call
        results == searchIndex.results
        qualifying == IndexQualifying(c.query, c.filters)
        limit == IF c.limit = Unset THEN DefaultIndexLimit ELSE c.limit
        offset == IF c.offset = Unset THEN 0 ELSE c.offset
        Better(x) == {q \in qualifying : IndexScore(c.query, q) > x}
        NotWorse(x) == {q \in qualifying : IndexScore(c.query, q) >= x}
    IN  /\ ResultIds([results |-> results]) \subseteq qualifying
        /\ \A i, j \in 1..Len(results) : results[i].id = results[j].id => i = j
        /\ \A i \in 1..Len(results) :
             /\ results[i].score = IndexScore(c.query, results[i].id)
             /\ results[i].data = searchIndex.documents[results[i].id]
             /\ i > 1 => results[i - 1].score >= results[i].score
             /\ Cardinality(Better(results[i].score)) <= offset + i - 1
             /\ Cardinality(NotWorse(results[i].score)) >= offset + i
        /\ Len(results) = Min(limit, Max(0, Cardinality(qualifying) - offset))

\* a search for "cat" filtered by category x returned one of two matching
\* documents, the other holding category y
C23_Witness ==
  /\ searchIndex.call.op = "search"
  /\ searchIndex.call.query = Cat
  /\ searchIndex.call.filters # NoFilters
  /\ Len(searchIndex.results) = 1
  /\ \E id \in DOMAIN searchIndex.documents :
       /\ searchIndex.documents[id].title = Cat
       /\ "category" \in DOMAIN searchIndex.documents[id]
       /\ searchIndex.documents[id].category = GuideY

\* C24: for every maxMessages and every identifier, at most maxMessages
\* calls of isAllowed(identifier) have returned true since the window of the
\* identifier was last reset
C24_AtMostMaxPerWindow ==
  \A identifier \in DOMAIN limiter.granted :
    limiter.granted[identifier] <= limiter.maxMessages

\* C25: the results of every response of processSearchResults are in
\* non-increasing order of score, and none of them has a score below minScore
C25_SortedAboveMinScore ==
  lastCall.op = "processSearchResults" =>
    /\ \A i \in 1..(Len(response.results) - 1) :
         response.results[i].score >= response.results[i + 1].score
    /\ \A i \in 1..Len(response.results) :
         response.results[i].score >= searchConfig.minScore

\* a page of two results with different scores, the higher one inserted
\* later, cut from a Map whose first entry is below minScore
C25_Witness ==
  /\ lastCall.op = "processSearchResults"
  /\ Len(documentScores) = 3
  /\ documentScores[1].score < searchConfig.minScore
  /\ documentScores[2].score >= searchConfig.minScore
  /\ documentScores[2].score < documentScores[3].score
  /\ Len(response.results) = 2
  /\ response.results[1].id = documentScores[3].id

\* the score of id in a Map or in a list of results, 0 without an entry
ScoreOf(entries, id) ==
  LET own == SelectSeq(entries, LAMBDA e : e.id = id)
  IN  IF own = <<>> THEN 0 ELSE own[1].score

\* the adapter and the store with every edge-gram posting taken out, and with
\* every n-gram posting taken out
MemoryWithoutEdgegrams == [Memory EXCEPT !.edgegramIndex = <<>>]
StoreWithoutEdgegrams == [redis EXCEPT !.edgegram = <<>>]
MemoryWithoutNgrams == [Memory EXCEPT !.ngramIndex = <<>>]
StoreWithoutNgrams == [redis EXCEPT !.ngram = <<>>]

\* one order of the ids posted in the store
SomeOrder == CHOOSE order \in Orders(MemberIds(redis)) : TRUE

\* (length / maxEdgegram) x edgegramWeight summed over the edge-grams of the
\* search terms that are in posted
EdgegramShare(searchTerms, posted) ==
  SumSeq(Flatten([t \in 1..Len(searchTerms) |->
           LET edgegrams == generateSearchTerms(searchConfig, searchTerms[t]).edgegrams
           IN  [g \in 1..Len(edgegrams) |->
                  IF edgegrams[g] \in posted
                  THEN EdgegramBoost(searchConfig, edgegrams[g]) ELSE 0]]))

\* what the edge-gram postings add to the score of id in the last search of
\* the MemoryAdapter and of the UnifiedRedisAdapter
MemoryEdgegramGain(id) ==
  ScoreOf(documentScores, id)
    - ScoreOf(search(MemoryWithoutEdgegrams, searchConfig, lastCall.query).documentScores, id)

RedisEdgegramGain(id) ==
  ScoreOf(redisResponse.response.results, id)
    - ScoreOf(performSearch(StoreWithoutEdgegrams, searchConfig, lastCall.query,
                            SomeOrder).response.results, id)

\* C26: in a search of the MemoryAdapter and of the UnifiedRedisAdapter every
\* edge-gram of a query term whose posting set holds a document adds
\* (length of the edge-gram / maxEdgegram) x edgegramWeight to the score of
\* that document
C26_EdgegramByLength ==
  lastCall.op = "search" =>
    LET searchTerms == normalizeSearchQuery(lastCall.query).searchTerms
    IN  /\ \A id \in StoredIds :
             MemoryEdgegramGain(id)
               = EdgegramShare(searchTerms, PostedUnder(edgegramIndex, id))
        /\ \A id \in DOMAIN redis.doc :
             RedisEdgegramGain(id)
               = EdgegramShare(searchTerms, PostedInStore("edgegram", id))

\* ngramWeight summed over the n-grams of the search terms that are in posted
NgramShare(searchTerms, posted) ==
  SumSeq(Flatten([t \in 1..Len(searchTerms) |->
           LET ngrams == generateSearchTerms(searchConfig, searchTerms[t]).ngrams
           IN  [g \in 1..Len(ngrams) |->
                  IF ngrams[g] \in posted THEN searchConfig.ngramWeight ELSE 0]]))

\* what the n-gram postings add to the final score of id in the last search
\* of the MemoryAdapter and of the UnifiedRedisAdapter
MemoryNgramGain(id) ==
  ScoreOf(documentScores, id)
    - ScoreOf(search(MemoryWithoutNgrams, searchConfig, lastCall.query).documentScores, id)

RedisNgramGain(id) ==
  ScoreOf(redisResponse.response.results, id)
    - ScoreOf(performSearch(StoreWithoutNgrams, searchConfig, lastCall.query,
                            SomeOrder).response.results, id)

\* C27: in a search of the MemoryAdapter and of the UnifiedRedisAdapter every
\* n-gram of a query term whose posting set holds a document adds exactly
\* ngramWeight to the final score of that document, summed over all grams and
\* all query terms
C27_NgramWeight ==
  lastCall.op = "search" =>
    LET searchTerms == normalizeSearchQuery(lastCall.query).searchTerms
    IN  /\ \A id \in StoredIds :
             MemoryNgramGain(id) = NgramShare(searchTerms, PostedUnder(ngramIndex, id))
        /\ \A id \in DOMAIN redis.doc :
             RedisNgramGain(id) = NgramShare(searchTerms, PostedInStore("ngram", id))

\* term stands in the lowercased content from position i on as a word: spaces
\* or the ends of the content on both sides, no space inside
WordAt(content, term, i) ==
  LET contentLower == toLowerCase(content)
      j == i + Len(term) - 1
  IN  /\ Len(term) > 0
      /\ j <= Len(contentLower)
      /\ SubSeq(contentLower, i, j) = term
      /\ \A k \in 1..Len(term) : ~IsSpace(term[k])
      /\ (i = 1 \/ IsSpace(contentLower[i - 1]))
      /\ (j = Len(contentLower) \/ IsSpace(contentLower[j + 1]))

\* the positions of the query terms that are a word of the content
MatchingTerms(content, searchTerms) ==
  {t \in 1..Len(searchTerms) :
     \E i \in 1..Len(content) : WordAt(content, searchTerms[t], i)}

\* the exact-word boost in a score of calculateRelevanceScore
ExactBoost ==
  boosted.score - Times(boosted.ngramMatches, searchConfig.ngramWeight)
                - Times(boosted.edgegramMatches, searchConfig.edgegramWeight)

\* C28: the exact-word boost calculateRelevanceScore adds is exactMatchBoost
\* times the number of query terms that are a whitespace-delimited word of
\* the lowercased content, whatever the number of occurrences of a term in
\* the content, and 0 when no term is such a word
C28_ExactBoostPerTerm ==
  boosted.applied =>
    ExactBoost = searchConfig.exactMatchBoost
                   * Cardinality(MatchingTerms(boosted.content, boosted.searchTerms))

\* "cat hat" scored for the content "cat cat": one of the two terms is a
\* word of the content, twice
C28_Witness ==
  /\ boosted.applied
  /\ boosted.content = CatCat
  /\ boosted.searchTerms = <<Cat, <<"h","a","t">>>>
  /\ boosted.ngramMatches > 0
  /\ ExactBoost = searchConfig.exactMatchBoost

\* C29: a search of the MemoryAdapter changes no stored document and no
\* posting set (the access order and the access counter may change), and a
\* search of the UnifiedRedisAdapter leaves the store as it is and sends no
\* command other than SMEMBERS and HGETALL
C29_SearchReadOnly ==
  [][lastCall'.op = "search" =>
       /\ documents' = documents
       /\ ngramIndex' = ngramIndex
       /\ edgegramIndex' = edgegramIndex
       /\ redis' = redis
       /\ issued' \subseteq {"SMEMBERS", "HGETALL"}]_vars

\* a search that found both stored documents: it moved the access counter of
\* the MemoryAdapter by two ticks and sent both read commands to the store
C29_Witness ==
  /\ lastCall.op = "search"
  /\ Cardinality(StoredIds) = 2
  /\ response.total = 2
  /\ accessCounter = MaxTick
  /\ \A i \in 1..Len(documentAccessOrder) :
       documentAccessOrder[i].tick > Cardinality(StoredIds)
  /\ redisResponse.response.total = 2
  /\ issued = {"SMEMBERS", "HGETALL"}

\* the results of a response without those of the ids in skipped
ResultsBeside(resp, skipped) ==
  SelectSeq(resp.results, LAMBDA r : r.id \notin skipped)

\* C30: a search of the UnifiedRedisAdapter whose commands are interleaved
\* with those of removeDocument(id) completes without an error; a result it
\* returns has the content its record held, which is not empty, and the
\* results of the documents no removeDocument was in flight for are those of
\* a search on the store the search started on
C30_RemovalTolerated ==
  racing.search = "done" =>
    /\ redisResponse.error = "none"
    /\ \A i \in 1..Len(redisResponse.response.results) :
         LET result == redisResponse.response.results[i]
         IN  /\ result.data.content # <<>>
             /\ KeyExists(racing.startStore, getKey("doc", result.id))
             /\ result.data.content
                  = HGETALL(racing.startStore, getKey("doc", result.id)).content
    /\ ResultsBeside(redisResponse.response, racing.overlapped)
         = ResultsBeside(performSearch(racing.startStore, searchConfig,
                                       racing.query, racing.order).response,
                         racing.overlapped)

\* a search for "cat" that read a in a posting set and then found the record
\* of a deleted by a removeDocument("a") in flight: a is left out, b is
\* returned
C30_Witness ==
  /\ racing.search = "done"
  /\ racing.overlapped = {"a"}
  /\ \E i \in 1..Len(racing.candidates) :
       /\ racing.candidates[i].id = "a"
       /\ racing.records[i] = <<>>
  /\ KeyExists(racing.startStore, getKey("doc", "a"))
  /\ ResultIds(redisResponse.response) = {"b"}

\* the record of id exists and holds no terms list that parses
NoUsableTerms(store, id) ==
  LET doc == HGETALL(store, getKey("doc", id))
  IN  /\ KeyExists(store, getKey("doc", id))
      /\ ~(Truthy(doc, "terms") /\ JSONparses(doc.terms))

\* the ids posted under some n-gram or edge-gram key of the store
PostedIds(store) ==
  UNION {SMEMBERS(store, k) : k \in KEYS(store, "ngram") \cup KEYS(store, "edgegram")}

\* C31: removeDocument of the UnifiedRedisAdapter scans the keys (KEYS)
\* exactly when the record of the id exists without a terms list that
\* parses, and then no n-gram and no edge-gram posting of the id is left
C31_FallbackWhenNoTerms ==
  [][lastCall'.op = "removeDocument" =>
       /\ ("KEYS" \in issued') = NoUsableTerms(redis, lastCall'.id)
       /\ NoUsableTerms(redis, lastCall'.id) => lastCall'.id \notin PostedIds(redis')]_vars

\* the matches <<position of the term, index>> of all search terms
AllMatches(content, searchTerms) ==
  {m \in (1..Len(searchTerms)) \X (0..Len(content)) :
     m[2] \in Range(MatchIndexes(content, searchTerms[m[1]]))}

\* the matches in front of m: those of earlier terms, and those of the same
\* term further left
MatchesBefore(matches, m) ==
  {n \in matches : n[1] < m[1] \/ (n[1] = m[1] /\ n[2] < m[2])}

\* C32: generateHighlights returns at most maxHighlights snippets over all
\* search terms together: they are the snippets of the first maxHighlights
\* matches, the terms taken in their order and the matches of a term from
\* left to right, so a term gets no snippet once the terms before it have
\* used up maxHighlights
C32_HighlightBudget ==
  highlighted.applied =>
    LET matches == AllMatches(highlighted.content, highlighted.searchTerms)
        highlights == highlighted.highlights
    IN  /\ Len(highlights) = Min(highlighted.maxHighlights, Cardinality(matches))
        /\ \A k \in 1..Len(highlights) :
             /\ <<highlights[k].term, highlights[k].index>> \in matches
             /\ Cardinality(MatchesBefore(matches,
                  <<highlights[k].term, highlights[k].index>>)) = k - 1

\* "cat hat" highlighted in "Cat hat cat" with maxHighlights = 2: both
\* snippets are for "cat", none is for "hat", which is in the content
C32_Witness ==
  /\ highlighted.applied
  /\ highlighted.content = CatHatCat
  /\ highlighted.searchTerms = <<Cat, <<"h","a","t">>>>
  /\ highlighted.maxHighlights = 2
  /\ Len(highlighted.highlights) = 2
  /\ \A k \in 1..2 : highlighted.highlights[k].term = 1
  /\ MatchIndexes(highlighted.content, highlighted.searchTerms[2]) # <<>>

\* the access tick of a stored id in a documentAccessOrder
TickOf(order, id) ==
  LET own == SelectSeq(order, LAMBDA e : e.id = id)
  IN  IF own = <<>> THEN 0 ELSE own[1].tick

\* the candidates of a Map whose final score is at least minScore
HitsOf(entries) ==
  {entries[i].id : i \in {i \in 1..Len(entries) :
                            entries[i].score >= searchConfig.minScore}}

\* C33: a search of the MemoryAdapter gives a new, larger access tick to a
\* stored document exactly when the document is a candidate of the search
\* with a final score of at least minScore; every other document keeps its
\* tick
C33_TicksOnHitsOnly ==
  [][lastCall'.op = "search" =>
       \A id \in StoredIds :
         /\ (TickOf(documentAccessOrder', id) > TickOf(documentAccessOrder, id))
              = (id \in HitsOf(documentScores'))
         /\ id \notin HitsOf(documentScores')
              => TickOf(documentAccessOrder', id) = TickOf(documentAccessOrder, id)]_vars

\* C34: after cleanup of the UnifiedRedisAdapter every member of
\* sessions:active has a session key: the members without a key have been
\* taken out, and no member with a key has been
C34_CleanupDropsDangling ==
  sessions.call.op = "cleanup" =>
    /\ \A id \in sessions.active : id \in DOMAIN sessions.keys
    /\ \A id \in sessions.call.before :
         (id \in sessions.active) = (id \in DOMAIN sessions.keys)

\* a cleanup that took one member out, whose key had expired, and kept one
C34_Witness ==
  /\ sessions.call.op = "cleanup"
  /\ sessions.call.before \ sessions.active # {}
  /\ sessions.active # {}

\* C36: updateLastSeen(sessionId) for a session without a stored record
\* creates no record, in the MemoryAdapter and in the UnifiedRedisAdapter:
\* afterwards there is no session key for the id, getSession returns null
\* and getAllSessions does not list the id
C36_UpdateLastSeenCreatesNothing ==
  [][sessions'.call.op = "updateLastSeen" =>
       LET id == sessions'.call.id
       IN  /\ id \notin DOMAIN sessions.memory =>
                /\ id \notin DOMAIN sessions'.memory
                /\ ~memoryGetSession(sessions', id)
                /\ id \notin memoryGetAllSessions(sessions')
           /\ id \notin DOMAIN sessions.keys =>
                /\ id \notin DOMAIN sessions'.keys
                /\ ~redisGetSession(sessions', id)
                /\ id \notin redisListed(sessions')]_vars

\* the grams under which id is posted in the store, n-grams and edge-grams
GramsPosted(id) == PostedInStore("ngram", id) \cup PostedInStore("edgegram", id)

\* C35: when two indexDocument calls of the UnifiedRedisAdapter for one id
\* have both completed, however they interleaved, the gram keys whose sets
\* hold the id are exactly the terms listed in the stored record of the id
C35_ReindexLeavesNoOldPosting ==
  (/\ \A c \in Callers : reindexing.calls[c].stage = "done"
   /\ KeyExists(redis, getKey("doc", ReindexId))) =>
    GramsPosted(ReindexId)
      = Range(JSONparse(HGETALL(redis, getKey("doc", ReindexId)).terms))

\* C37: a search call of the PlugNPlayClient that resolved with a response
\* resolved with the server's response to its own query, never with the
\* response to the query of another call
C37_OwnResponse ==
  \A c \in Searchers :
    (client.calls[c].state = "resolved" /\ client.calls[c].result # "null") =>
      client.calls[c].result = client.calls[c].query

\* C38: for every session of the PlugNPlayServer, deleteSession is called and
\* the 'disconnect' event is emitted at most once, whether the client, a
\* disconnectSession call or close() ends the session
C38_DisconnectOnce ==
  \A s \in ServerSockets :
    /\ server.sockets[s].emitted <= 1
    /\ server.sockets[s].deleted <= 1

\* the window of the identifier is running: there is a record and its
\* window has not passed
WindowRuns(l, identifier) ==
  /\ identifier \in DOMAIN l.messageCounts
  /\ ~(l.now - l.messageCounts[identifier].lastReset > l.timeWindow)

\* what remains of maxMessages after the calls that returned true in the
\* current window
LeftInWindow(l, identifier) ==
  IF WindowRuns(l, identifier)
  THEN l.maxMessages - l.granted[identifier]
  ELSE l.maxMessages

\* C39: after every step getRemaining(identifier) is maxMessages minus the
\* number of isAllowed(identifier) calls that returned true in the current
\* window, maxMessages when there is no record or the window has passed; and
\* a call of isAllowed(identifier) returns true exactly when
\* getRemaining(identifier) was greater than 0 just before it
C39_RemainingMatchesAllowed ==
  [][/\ \A identifier \in Identifiers :
          getRemaining(limiter', identifier) = LeftInWindow(limiter', identifier)
     /\ limiter'.call.op = "isAllowed" =>
          (limiter'.call.allowed
             <=> getRemaining(limiter, limiter'.call.identifier) > 0)]_vars

\* the bookkeeping of the MemoryAdapter m is in order: documentAccessOrder has
\* one entry for each stored document and for nothing else, the ticks are
\* pairwise distinct and at most accessCounter, and when a document is
\* stored exactly one entry holds the smallest tick
LruInOrder(m) ==
  LET order == m.documentAccessOrder
  IN  /\ {order[i].id : i \in 1..Len(order)} = DOMAIN m.documents
      /\ \A i, j \in 1..Len(order) :
           i # j => order[i].id # order[j].id /\ order[i].tick # order[j].tick
      /\ \A i \in 1..Len(order) : order[i].tick <= m.accessCounter
      /\ m.documents # <<>> =>
           /\ findLRUDocument(m) \in DOMAIN m.documents
           /\ Cardinality({i \in 1..Len(order) :
                             \A j \in 1..Len(order) : order[i].tick <= order[j].tick}) = 1

\* C40: after every call of the MemoryAdapter the key set of
\* documentAccessOrder is the key set of documents, the ticks are pairwise
\* distinct and at most accessCounter, so that the least recently used
\* document is unique whenever one is stored; and no call but disconnect()
\* decreases accessCounter
C40_LruBookkeeping ==
  [][/\ LruInOrder([documents |-> documents', documentAccessOrder |-> documentAccessOrder',
                    ngramIndex |-> ngramIndex', edgegramIndex |-> edgegramIndex',
                    accessCounter |-> accessCounter'])
     /\ lastCall'.op # "disconnect" => accessCounter' >= accessCounter]_vars

\* a search has given both stored documents new ticks, the two highest
\* handed out since the last disconnect()
C40_Witness ==
  /\ lastCall.op = "search"
  /\ Len(documentAccessOrder) = 2
  /\ {documentAccessOrder[i].tick : i \in 1..2} = {accessCounter - 1, accessCounter}
  /\ accessCounter = 3

====
